---- MODULE Spec2Model ----
(***************************************************************************)
(* Verification model of the test-support helpers of go-playground:        *)
(*   mongoevent.ServerMonitor, mongoevent.PoolMonitor, monitor.Monitor,    *)
(*   the unified-spec test file decoder (testFile.UnmarshalBSON),          *)
(*   failpoint.Enable, mongoindex.AwaitIndex, mongolocal.New / NewWithEnv  *)
(*   / NewV1, awsKMSProvider.UnmarshalBSON, addLineItem, read32 /          *)
(*   readi32, tlsDetectorConn, and the Failed callback of the              *)
(*   retryable-write tests.                                                *)
(* Each helper has its own specification (SpecServerMonitor, SpecPool,     *)
(* SpecMonitor, SpecDecode, SpecFailpoint, SpecAwaitIndex, SpecMongolocal, *)
(* SpecKMS, SpecTransaction, SpecRead32, SpecTLSDetector,                  *)
(* SpecRetryableWrite); a specification moves only its own variables and   *)
(* leaves the other helpers in their initial state.                        *)
(***************************************************************************)
EXTENDS Integers, Sequences, FiniteSets, TLC

\* A value no field ever holds (Go nil).
Nil == "nil"

(***************************************************************************)
(* mongoevent.ServerMonitor                                                *)
(***************************************************************************)

\* Number of TopologyDescriptionChanged events the driver publishes.
MaxTopologyEvents == 3

\* event.TopologyDescription values; ZeroDesc is the Go zero value.
ZeroDesc == "zero"
Descs == {"td1", "td2"}

\* Goroutines calling LatestTopologyDescription.
Readers == {"r1", "r2"}

VARIABLES
  latestTopology,  \* ServerMonitor.latestTopology
  smWriter,        \* ServerMonitor.mu is write-locked
  smReaders,       \* the readers holding ServerMonitor.mu.RLock
  cbPc,            \* position of the publishing goroutine in the callback
  cbEvt,           \* the event the callback was invoked with
  rdPc,            \* position of each reader in LatestTopologyDescription
  rdRet,           \* the value each reader returned
  smDelivered,     \* history: number of callbacks that have returned
  smLast,          \* history: NewDescription of the last callback that returned
  rdSeen           \* history: smLast when the reader copied latestTopology

smVars == <<latestTopology, smWriter, smReaders, cbPc, cbEvt, rdPc, rdRet,
            smDelivered, smLast, rdSeen>>

TopologyEvents ==
  [PreviousDescription : Descs \cup {ZeroDesc}, NewDescription : Descs \cup {ZeroDesc}]

SMInit ==
  /\ latestTopology = ZeroDesc
  /\ smWriter = FALSE
  /\ smReaders = {}
  /\ cbPc = "idle"
  /\ cbEvt = Nil
  /\ rdPc = [r \in Readers |-> "idle"]
  /\ rdRet = [r \in Readers |-> Nil]
  /\ smDelivered = 0
  /\ smLast = ZeroDesc
  /\ rdSeen = [r \in Readers |-> Nil]

\* A mutant of the callback's assignment: the previous description is stored.
TopologyDescriptionChanged_prev(evt) == evt.PreviousDescription

\* The value the callback assigns to monitor.latestTopology.
TopologyDescriptionChanged(evt) == evt.NewDescription

\* The driver invokes the TopologyDescriptionChanged callback with evt.
CbInvoke(evt) ==
  /\ cbPc = "idle"
  /\ smDelivered < MaxTopologyEvents
  /\ cbEvt' = evt
  /\ cbPc' = "lock"
  /\ UNCHANGED <<latestTopology, smWriter, smReaders, rdPc, rdRet,
                 smDelivered, smLast, rdSeen>>

\* monitor.mu.Lock()
CbLock ==
  /\ cbPc = "lock"
  /\ ~smWriter
  /\ smReaders = {}
  /\ smWriter' = TRUE
  /\ cbPc' = "assign"
  /\ UNCHANGED <<latestTopology, smReaders, cbEvt, rdPc, rdRet,
                 smDelivered, smLast, rdSeen>>

\* monitor.latestTopology = evt.NewDescription
CbAssign ==
  /\ cbPc = "assign"
  /\ latestTopology' = TopologyDescriptionChanged(cbEvt)
  /\ cbPc' = "unlock"
  /\ UNCHANGED <<smWriter, smReaders, cbEvt, rdPc, rdRet,
                 smDelivered, smLast, rdSeen>>

\* monitor.mu.Unlock(); the callback returns: the event has been delivered.
CbUnlock ==
  /\ cbPc = "unlock"
  /\ smWriter' = FALSE
  /\ cbPc' = "idle"
  /\ smDelivered' = smDelivered + 1
  /\ smLast' = cbEvt.NewDescription
  /\ UNCHANGED <<latestTopology, smReaders, cbEvt, rdPc, rdRet, rdSeen>>

\* A goroutine calls LatestTopologyDescription.
RdCall(r) ==
  /\ rdPc[r] \in {"idle", "returned"}
  /\ rdPc' = [rdPc EXCEPT ![r] = "rlock"]
  /\ rdRet' = [rdRet EXCEPT ![r] = Nil]
  /\ rdSeen' = [rdSeen EXCEPT ![r] = Nil]
  /\ UNCHANGED <<latestTopology, smWriter, smReaders, cbPc, cbEvt,
                 smDelivered, smLast>>

\* sm.mu.RLock()
RdRLock(r) ==
  /\ rdPc[r] = "rlock"
  /\ ~smWriter
  /\ smReaders' = smReaders \cup {r}
  /\ rdPc' = [rdPc EXCEPT ![r] = "read"]
  /\ UNCHANGED <<latestTopology, smWriter, cbPc, cbEvt, rdRet,
                 smDelivered, smLast, rdSeen>>

\* return sm.latestTopology: the result is copied while the lock is held.
LatestTopologyDescription(r) ==
  /\ rdPc[r] = "read"
  /\ rdRet' = [rdRet EXCEPT ![r] = latestTopology]
  /\ rdSeen' = [rdSeen EXCEPT ![r] = smLast]
  /\ rdPc' = [rdPc EXCEPT ![r] = "runlock"]
  /\ UNCHANGED <<latestTopology, smWriter, smReaders, cbPc, cbEvt,
                 smDelivered, smLast>>

\* defer sm.mu.RUnlock(); the call returns.
RdRUnlock(r) ==
  /\ rdPc[r] = "runlock"
  /\ smReaders' = smReaders \ {r}
  /\ rdPc' = [rdPc EXCEPT ![r] = "returned"]
  /\ UNCHANGED <<latestTopology, smWriter, cbPc, cbEvt, rdRet,
                 smDelivered, smLast, rdSeen>>

SMNext ==
  \/ \E evt \in TopologyEvents : CbInvoke(evt)
  \/ CbLock
  \/ CbAssign
  \/ CbUnlock
  \/ \E r \in Readers : RdCall(r)
  \/ \E r \in Readers : RdRLock(r)
  \/ \E r \in Readers : LatestTopologyDescription(r)
  \/ \E r \in Readers : RdRUnlock(r)

(***************************************************************************)
(* mongoevent.PoolMonitor                                                  *)
(***************************************************************************)

\* Number of connections the driver's pools create.
MaxConns == 3

\* Server addresses (event.PoolEvent.Address).
Addrs == {"host1:27017", "host2:27017"}
ConnIds == 1 .. MaxConns

\* event.PoolEvent.Type values.
ConnectionCreated == "ConnectionCreated"
ConnectionReady == "ConnectionReady"
ConnectionClosed == "ConnectionClosed"
ConnectionCheckedOut == "ConnectionCheckedOut"
ConnectionCheckedIn == "ConnectionCheckedIn"

VARIABLES
  connsPerServer,  \* PoolMonitor.connsPerServer (a missing key reads as 0)
  connState,       \* driver: life cycle of each connection
  connAddr,        \* driver: the server each created connection belongs to
  connOut          \* driver: the connection is checked out

pmVars == <<connsPerServer, connState, connAddr, connOut>>

PMInit ==
  /\ connsPerServer = [a \in Addrs |-> 0]
  /\ connState = [c \in ConnIds |-> "none"]
  /\ connAddr = [c \in ConnIds |-> Nil]
  /\ connOut = [c \in ConnIds |-> FALSE]

\* The Event callback of NewPoolEventMonitor: the map after evt.
PoolEvent(m, evt) ==
  CASE evt.Type = ConnectionReady ->
         [m EXCEPT ![evt.Address] = m[evt.Address] + 1]
    [] evt.Type = ConnectionClosed ->
         [m EXCEPT ![evt.Address] = m[evt.Address] - 1]
    [] OTHER -> m

\* PoolMonitor.ConnsReady
ConnsReady(serverAddr) == connsPerServer[serverAddr]

\* The pool creates a connection to addr and publishes ConnectionCreated.
PoolConnectionCreated(c, addr) ==
  /\ connState[c] = "none"
  /\ connState' = [connState EXCEPT ![c] = "created"]
  /\ connAddr' = [connAddr EXCEPT ![c] = addr]
  /\ connsPerServer' =
       PoolEvent(connsPerServer, [Type |-> ConnectionCreated, Address |-> addr])
  /\ UNCHANGED connOut

\* The connection finished its handshake: ConnectionReady.
PoolConnectionReady(c) ==
  /\ connState[c] = "created"
  /\ connState' = [connState EXCEPT ![c] = "ready"]
  /\ connsPerServer' =
       PoolEvent(connsPerServer, [Type |-> ConnectionReady, Address |-> connAddr[c]])
  /\ UNCHANGED <<connAddr, connOut>>

\* The pool closes the connection, ready or still being established
\* (a failed handshake): ConnectionClosed.
PoolConnectionClosed(c) ==
  /\ connState[c] \in {"created", "ready"}
  /\ ~connOut[c]
  /\ connState' = [connState EXCEPT ![c] = "closed"]
  /\ connsPerServer' =
       PoolEvent(connsPerServer, [Type |-> ConnectionClosed, Address |-> connAddr[c]])
  /\ UNCHANGED <<connAddr, connOut>>

\* A ready connection is checked out: an event of another type.
PoolConnectionCheckedOut(c) ==
  /\ connState[c] = "ready"
  /\ ~connOut[c]
  /\ connOut' = [connOut EXCEPT ![c] = TRUE]
  /\ connsPerServer' =
       PoolEvent(connsPerServer, [Type |-> ConnectionCheckedOut, Address |-> connAddr[c]])
  /\ UNCHANGED <<connState, connAddr>>

\* A checked-out connection is checked in: an event of another type.
PoolConnectionCheckedIn(c) ==
  /\ connState[c] = "ready"
  /\ connOut[c]
  /\ connOut' = [connOut EXCEPT ![c] = FALSE]
  /\ connsPerServer' =
       PoolEvent(connsPerServer, [Type |-> ConnectionCheckedIn, Address |-> connAddr[c]])
  /\ UNCHANGED <<connState, connAddr>>

PMNext ==
  \/ \E c \in ConnIds, a \in Addrs : PoolConnectionCreated(c, a)
  \/ \E c \in ConnIds : PoolConnectionReady(c)
  \/ \E c \in ConnIds : PoolConnectionClosed(c)
  \/ \E c \in ConnIds : PoolConnectionCheckedOut(c)
  \/ \E c \in ConnIds : PoolConnectionCheckedIn(c)

(***************************************************************************)
(* monitor.Monitor                                                         *)
(***************************************************************************)

\* Number of command and pool events the driver delivers to the monitor.
MaxMonEvents == 2
\* Number of calls of Monitor.Events the test makes.
MaxEventsCalls == 2

\* Goroutines running the monitor's callbacks. Every append is made under
\* eventMu, so callbacks of several goroutines interleave as those of one do
\* with the caller of Events; one goroutine is modelled.
Handlers == {"h1"}

\* Command names, and the cmds lists monitor.New is called with.
CmdNames == {"getMore", "find"}
CmdLists == {<<"getMore">>, <<"find", "find">>}

\* EventType values of the recorded events.
EventCommandStarted == "EventCommandStarted"
EventCommandFailed == "EventCommandFailed"
EventConnectionCheckedOut == "EventConnectionCheckedOut"
EventConnectionCheckedIn == "EventConnectionCheckedIn"
EventConnectionClosed == "EventConnectionClosed"

\* The driver's events: the callback invoked, the command name or the pool
\* event type, and the identity of the event object.
DriverEvents(id) ==
  [cb : {"Started", "Failed"}, name : CmdNames, id : {id}]
    \cup [cb : {"Succeeded"}, name : {"getMore"}, id : {id}]
    \cup [cb : {"Pool"},
          name : {ConnectionCheckedIn, ConnectionCheckedOut, ConnectionClosed,
                  ConnectionCreated},
          id : {id}]

\* What a caller writes over an element of a slice it got from Events.
Overwritten == [Type |-> "overwritten", Event |-> Nil]

\* A slice is a backing array of the heap (0: none) and a length; its
\* capacity is the length of the backing array.
NilSlice == [arr |-> 0, len |-> 0]
SliceCap(heap, sl) == IF sl.arr = 0 THEN 0 ELSE Len(heap[sl.arr])
SliceContent(heap, sl) ==
  IF sl.arr = 0 THEN <<>> ELSE SubSeq(heap[sl.arr], 1, sl.len)

VARIABLES
  monCmds,       \* the cmds monitor.New was called with
  monHeap,       \* the backing arrays allocated so far
  allEvents,     \* Monitor.allEvents
  hPc,           \* position of each callback goroutine
  hEvt,          \* the event its callback was invoked with
  hIdx,          \* the index of its loop over cmds
  monSeq,        \* number of events delivered so far
  evCalls,       \* number of calls of Events so far
  gotEvents,     \* the slice the last call of Events returned
  monRecorded,   \* history: the events recorded so far, in order
  monCompleted,  \* history: the events whose callback has returned
  gotExpected,   \* history: monRecorded when Events was last called
  gotDirty,      \* history: the caller wrote to gotEvents
  dirtyCalls     \* history: the calls of Events whose result was written to

monVars == <<monCmds, monHeap, allEvents, hPc, hEvt, hIdx, monSeq, evCalls,
             gotEvents, monRecorded, monCompleted, gotExpected, gotDirty,
             dirtyCalls>>

\* monitor.New: Reset empties allEvents, then the callbacks are installed.
MonInit ==
  /\ monCmds \in CmdLists
  /\ monHeap = <<>>
  /\ allEvents = NilSlice
  /\ hPc = [h \in Handlers |-> "idle"]
  /\ hEvt = [h \in Handlers |-> Nil]
  /\ hIdx = [h \in Handlers |-> 0]
  /\ monSeq = 0
  /\ evCalls = 0
  /\ gotEvents = NilSlice
  /\ monRecorded = <<>>
  /\ monCompleted = {}
  /\ gotExpected = <<>>
  /\ gotDirty = FALSE
  /\ dirtyCalls = {}

\* The heap after garbage collection: a backing array that neither the
\* monitor's slice nor the caller's slice refers to is unreachable.
Collect(heap, sl1, sl2) ==
  [i \in DOMAIN heap |-> IF i \in {sl1.arr, sl2.arr} THEN heap[i] ELSE <<>>]

\* Go's append of one element: in place while the capacity allows, else into
\* a new backing array of twice the capacity (1 for an empty slice).
AppendOne(heap, sl, e) ==
  IF sl.len < SliceCap(heap, sl)
  THEN [heap |-> [heap EXCEPT ![sl.arr] = [@ EXCEPT ![sl.len + 1] = e]],
        slice |-> [arr |-> sl.arr, len |-> sl.len + 1]]
  ELSE LET newcap == IF SliceCap(heap, sl) = 0 THEN 1 ELSE 2 * SliceCap(heap, sl)
           old == SliceContent(heap, sl)
           fresh == [i \in 1 .. newcap |->
                       IF i <= sl.len THEN old[i]
                       ELSE IF i = sl.len + 1 THEN e ELSE Nil]
       IN [heap |-> Append(heap, fresh),
           slice |-> [arr |-> Len(heap) + 1, len |-> sl.len + 1]]

\* A mutant of Events: the monitor's own slice is returned, not a copy.
Events_alias(heap, sl) == [heap |-> heap, slice |-> sl]

\* Monitor.Events: append([]RecordedEvent(nil), m.allEvents...), a new
\* backing array holding the recorded events (nil when there are none).
Events(heap, sl) ==
  IF sl.len = 0
  THEN [heap |-> heap, slice |-> NilSlice]
  ELSE [heap |-> Append(heap, SliceContent(heap, sl)),
        slice |-> [arr |-> Len(heap) + 1, len |-> sl.len]]

\* The RecordedEvent a callback appends for the driver event e.
RecordedEvent(e) ==
  [Type |-> CASE e.cb = "Started" -> EventCommandStarted
              [] e.cb = "Failed" -> EventCommandFailed
              [] e.name = ConnectionCheckedIn -> EventConnectionCheckedIn
              [] e.name = ConnectionCheckedOut -> EventConnectionCheckedOut
              [] OTHER -> EventConnectionClosed,
   Event |-> e]

\* The driver invokes a callback of the monitor with a new event.
MonInvoke(h, e) ==
  /\ hPc[h] = "idle"
  /\ monSeq < MaxMonEvents
  /\ monSeq' = monSeq + 1
  /\ hEvt' = [hEvt EXCEPT ![h] = e]
  /\ hIdx' = [hIdx EXCEPT ![h] = 1]
  /\ hPc' = [hPc EXCEPT ![h] = IF e.cb = "Pool" THEN "switch" ELSE "loop"]
  /\ UNCHANGED <<monCmds, monHeap, allEvents, evCalls, gotEvents, monRecorded,
                 monCompleted, gotExpected, gotDirty, dirtyCalls>>

\* One iteration of "for _, cmd := range cmds" in Started, Succeeded and
\* Failed: Started and Failed append under eventMu when the name matches,
\* Succeeded only logs.
MonCommandLoop(h) ==
  /\ hPc[h] = "loop"
  /\ hIdx[h] <= Len(monCmds)
  /\ hIdx' = [hIdx EXCEPT ![h] = hIdx[h] + 1]
  /\ IF hEvt[h].name = monCmds[hIdx[h]] /\ hEvt[h].cb \in {"Started", "Failed"}
     THEN LET r == AppendOne(monHeap, allEvents, RecordedEvent(hEvt[h]))
          IN /\ monHeap' = Collect(r.heap, r.slice, gotEvents)
             /\ allEvents' = r.slice
             /\ monRecorded' = Append(monRecorded, RecordedEvent(hEvt[h]))
     ELSE UNCHANGED <<monHeap, allEvents, monRecorded>>
  /\ UNCHANGED <<monCmds, hPc, hEvt, monSeq, evCalls, gotEvents, monCompleted,
                 gotExpected, gotDirty, dirtyCalls>>

\* The loop over cmds is over: the command callback returns.
MonCommandReturn(h) ==
  /\ hPc[h] = "loop"
  /\ hIdx[h] > Len(monCmds)
  /\ hPc' = [hPc EXCEPT ![h] = "idle"]
  /\ monCompleted' = monCompleted \cup {hEvt[h]}
  /\ UNCHANGED <<monCmds, monHeap, allEvents, hEvt, hIdx, monSeq, evCalls,
                 gotEvents, monRecorded, gotExpected, gotDirty, dirtyCalls>>

\* PoolMonitor.Event: the switch on pe.Type, and the callback returns.
MonPoolEvent(h) ==
  /\ hPc[h] = "switch"
  /\ hPc' = [hPc EXCEPT ![h] = "idle"]
  /\ monCompleted' = monCompleted \cup {hEvt[h]}
  /\ IF hEvt[h].name \in {ConnectionCheckedIn, ConnectionCheckedOut, ConnectionClosed}
     THEN LET r == AppendOne(monHeap, allEvents, RecordedEvent(hEvt[h]))
          IN /\ monHeap' = Collect(r.heap, r.slice, gotEvents)
             /\ allEvents' = r.slice
             /\ monRecorded' = Append(monRecorded, RecordedEvent(hEvt[h]))
     ELSE UNCHANGED <<monHeap, allEvents, monRecorded>>
  /\ UNCHANGED <<monCmds, hEvt, hIdx, monSeq, evCalls, gotEvents,
                 gotExpected, gotDirty, dirtyCalls>>

\* The test calls Monitor.Events (under eventMu) and keeps the result.
MonEvents ==
  /\ evCalls < MaxEventsCalls
  /\ evCalls' = evCalls + 1
  /\ LET r == Events(monHeap, allEvents)
     IN /\ monHeap' = Collect(r.heap, allEvents, r.slice)
        /\ gotEvents' = r.slice
  /\ gotExpected' = monRecorded
  /\ gotDirty' = FALSE
  /\ UNCHANGED <<monCmds, allEvents, hPc, hEvt, hIdx, monSeq, monRecorded,
                 monCompleted, dirtyCalls>>

\* The test overwrites element i of the slice it got from Events.
MonModifyReturned(i) ==
  /\ i \in 1 .. gotEvents.len
  /\ monHeap[gotEvents.arr][i] # Overwritten
  /\ monHeap' = [monHeap EXCEPT ![gotEvents.arr] = [@ EXCEPT ![i] = Overwritten]]
  /\ gotDirty' = TRUE
  /\ dirtyCalls' = dirtyCalls \cup {evCalls}
  /\ UNCHANGED <<monCmds, allEvents, hPc, hEvt, hIdx, monSeq, evCalls,
                 gotEvents, monRecorded, monCompleted, gotExpected>>

MonNext ==
  \/ \E h \in Handlers : \E e \in DriverEvents(monSeq + 1) : MonInvoke(h, e)
  \/ \E h \in Handlers : MonCommandLoop(h)
  \/ \E h \in Handlers : MonCommandReturn(h)
  \/ \E h \in Handlers : MonPoolEvent(h)
  \/ MonEvents
  \/ \E i \in 1 .. gotEvents.len : MonModifyReturned(i)

(***************************************************************************)
(* testFile.UnmarshalBSON and Entities.UnmarshalBSONValue                  *)
(***************************************************************************)

\* Longest createEntities array at file level and at test level.
MaxFileEntities == 2
MaxTestEntities == 1

\* clientEntity and databaseEntity values; an ID of "" is a missing id.
ClientEntities ==
  {[ID |-> "client0", AutoEncryptOpts |-> Nil],
   [ID |-> "client0", AutoEncryptOpts |-> "opts"],
   [ID |-> "client1", AutoEncryptOpts |-> Nil],
   [ID |-> "", AutoEncryptOpts |-> Nil]}
DatabaseEntities ==
  {[ID |-> "db0", Client |-> "client0", DatabaseName |-> "db"]}

\* rawEntity: the elements of a createEntities array. A pointer field is
\* <<>> when nil and <<v>> when it points to v.
RawEntities ==
  [Client : {<<c>> : c \in ClientEntities}, Database : {<<>>}]
    \cup [Client : {<<>>}, Database : {<<d>> : d \in DatabaseEntities}]
    \cup [Client : {<<>>}, Database : {<<>>}]

SeqsUpTo(S, n) == UNION {[1 .. k -> S] : k \in 0 .. n}

\* A createEntities field: absent, or an array of raw entities.
AbsentField == [present |-> FALSE, list |-> <<>>]
FileCreateEntities ==
  {AbsentField} \cup [present : {TRUE}, list : SeqsUpTo(RawEntities, MaxFileEntities)]
TestCreateEntities ==
  {AbsentField} \cup [present : {TRUE}, list : SeqsUpTo(RawEntities, MaxTestEntities)]

\* The documents a test file is decoded from: no, one or two test cases.
TestFileDocs ==
  [createEntities : FileCreateEntities,
   tests : UNION {[1 .. k -> [createEntities : TestCreateEntities]] : k \in 0 .. 2}]

\* A Go map without keys (a nil map reads the same).
EmptyMap == [k \in {} |-> Nil]

VARIABLES
  tfData,   \* the document bson.Unmarshal is called with
  tfTests,  \* testFile.Tests of the receiver
  tfErr,    \* the error UnmarshalBSON returned
  tfPc      \* "start", or "decoded" once UnmarshalBSON has returned

tfVars == <<tfData, tfTests, tfErr, tfPc>>

TFInit ==
  /\ tfData \in TestFileDocs
  /\ tfTests = <<>>
  /\ tfErr = Nil
  /\ tfPc = "start"

\* The loop of Entities.UnmarshalBSONValue over list from element i on, with
\* the maps built so far: the error it returns, or the two lookup maps.
RECURSIVE EntitiesLoop(_, _, _, _)
EntitiesLoop(list, i, clients, databases) ==
  IF i > Len(list)
  THEN [err |-> Nil, clients |-> clients, databases |-> databases]
  ELSE LET r == list[i]
       IN IF r.Client # <<>>
          THEN IF r.Client[1].ID = ""
               THEN [err |-> "client entity missing id",
                     clients |-> clients, databases |-> databases]
               ELSE IF r.Client[1].ID \in DOMAIN clients
               THEN [err |-> "duplicate client id",
                     clients |-> clients, databases |-> databases]
               ELSE EntitiesLoop(list, i + 1,
                                 [k \in DOMAIN clients \cup {r.Client[1].ID} |->
                                    IF k = r.Client[1].ID THEN r.Client[1]
                                    ELSE clients[k]],
                                 databases)
          ELSE IF r.Database # <<>>
          THEN IF r.Database[1].ID = ""
               THEN [err |-> "database entity missing id",
                     clients |-> clients, databases |-> databases]
               ELSE IF r.Database[1].ID \in DOMAIN databases
               THEN [err |-> "duplicate database id",
                     clients |-> clients, databases |-> databases]
               ELSE EntitiesLoop(list, i + 1, clients,
                                 [k \in DOMAIN databases \cup {r.Database[1].ID} |->
                                    IF k = r.Database[1].ID THEN r.Database[1]
                                    ELSE databases[k]])
          ELSE [err |-> "entity must have exactly one top-level key",
                clients |-> clients, databases |-> databases]

\* Entities.UnmarshalBSONValue on the array of a createEntities field.
UnmarshalBSONValue(list) == EntitiesLoop(list, 1, EmptyMap, EmptyMap)

\* Decoding an Entities field: an absent field leaves the zero Entities.
DecodeEntities(ce) ==
  IF ~ce.present
  THEN [err |-> Nil, clients |-> EmptyMap, databases |-> EmptyMap]
  ELSE UnmarshalBSONValue(ce.list)

\* A mutant of the merge: the file-level definition wins on a duplicate ID.
MergeClients_fileWins(fileClients, testClients) ==
  [k \in DOMAIN fileClients \cup DOMAIN testClients |->
     IF k \in DOMAIN fileClients THEN fileClients[k] ELSE testClients[k]]

\* The merged map of one test case: the file-level clients are copied
\* first, the test-level clients are copied over them.
MergeClients(fileClients, testClients) ==
  [k \in DOMAIN fileClients \cup DOMAIN testClients |->
     IF k \in DOMAIN testClients THEN testClients[k] ELSE fileClients[k]]

\* testFile.UnmarshalBSON: the error and the Tests assigned to the receiver.
UnmarshalBSON(data) ==
  LET fileEnt == DecodeEntities(data.createEntities)
      testEnt == [i \in DOMAIN data.tests |-> DecodeEntities(data.tests[i].createEntities)]
      failed == {i \in DOMAIN data.tests : testEnt[i].err # Nil}
      first == CHOOSE i \in failed : \A j \in failed : i <= j
  IN IF fileEnt.err # Nil THEN [err |-> fileEnt.err, Tests |-> <<>>]
     ELSE IF failed # {} THEN [err |-> testEnt[first].err, Tests |-> <<>>]
     ELSE [err |-> Nil,
           Tests |-> [i \in DOMAIN data.tests |->
                        [clients |-> MergeClients(fileEnt.clients, testEnt[i].clients),
                         databases |-> testEnt[i].databases]]]

\* bson.Unmarshal(raw, &testFile): on an error the receiver is not assigned.
TFUnmarshal ==
  /\ tfPc = "start"
  /\ LET r == UnmarshalBSON(tfData)
     IN /\ tfErr' = r.err
        /\ tfTests' = IF r.err = Nil THEN r.Tests ELSE tfTests
  /\ tfPc' = "decoded"
  /\ UNCHANGED tfData

\* Entities.client and Entities.database: getByID on the lookup map
\* (zero is *new(T), the zero value of the map's element type).
getByID(m, id, zero) ==
  IF id \in DOMAIN m THEN [value |-> m[id], ok |-> TRUE]
  ELSE [value |-> zero, ok |-> FALSE]

ZeroClient == [ID |-> "", AutoEncryptOpts |-> Nil]
ZeroDatabase == [ID |-> "", Client |-> "", DatabaseName |-> ""]

TFNext == TFUnmarshal

(***************************************************************************)
(* failpoint.Enable                                                        *)
(***************************************************************************)

\* Number of calls of failpoint.Enable in one test.
MaxEnableCalls == 2

ModeAlwaysOn == "alwaysOn"
ModeOff == "off"

\* interfaceToInt32 on a value of dynamic type i.type. The values modelled
\* are whole numbers within the range of int32, which int32(conv) keeps.
interfaceToInt32(i) ==
  IF i.type \in {"int", "int32", "int64", "float64"}
  THEN [val |-> i.val, err |-> Nil]
  ELSE [val |-> 0, err |-> "cannot be converted to int32"]

\* NewSingleErr: the named command fails once with errCode.
NewSingleErr(cmdName, errCode) ==
  [ConfigureFailPoint |-> "failCommand",
   Mode |-> [kind |-> "struct", Times |-> 1, Skip |-> 0],
   Data |-> [FailCommands |-> <<cmdName>>, ErrorCode |-> errCode]]

\* A fail point whose Mode is the string str.
StringModeFailPoint(str, cmdName, errCode) ==
  [ConfigureFailPoint |-> "failCommand",
   Mode |-> [kind |-> "string", str |-> str],
   Data |-> [FailCommands |-> <<cmdName>>, ErrorCode |-> errCode]]

\* A fail point whose Mode is a map[string]any: each of the keys "times" and
\* "skip" is absent (<<>>) or holds one value of some dynamic type.
MapModeFailPoint(times, skip, cmdName, errCode) ==
  [ConfigureFailPoint |-> "failCommand",
   Mode |-> [kind |-> "map", times |-> times, skip |-> skip],
   Data |-> [FailCommands |-> <<cmdName>>, ErrorCode |-> errCode]]

\* The fail points the tests pass to Enable.
FailPoints ==
  {NewSingleErr("find", 42),
   StringModeFailPoint(ModeAlwaysOn, "find", 91),
   MapModeFailPoint(<<[type |-> "int", val |-> 2]>>, <<>>, "ping", 2),
   MapModeFailPoint(<<[type |-> "int64", val |-> 1]>>, <<>>, "ping", 2),
   MapModeFailPoint(<<[type |-> "string", val |-> 0]>>, <<>>, "ping", 2),
   MapModeFailPoint(<<[type |-> "string", val |-> 0]>>,
                    <<[type |-> "float64", val |-> 1]>>, "ping", 2)}

VARIABLES
  fpPc,         \* the test: "body", "deferred" (running its defers) or "done"
  fpFailed,     \* a require of the test has failed
  fpCalls,      \* number of calls of Enable so far
  fpDeferred,   \* the TeardownFuncs the test deferred, last one last
  fpAdminCmds,  \* the commands the admin database has accepted, in order
  fpEnabled     \* history: the indexes in fpAdminCmds of Enable's commands

fpVars == <<fpPc, fpFailed, fpCalls, fpDeferred, fpAdminCmds, fpEnabled>>

FPInit ==
  /\ fpPc = "body"
  /\ fpFailed = FALSE
  /\ fpCalls = 0
  /\ fpDeferred = <<>>
  /\ fpAdminCmds = <<>>
  /\ fpEnabled = {}

\* The first part of Enable: a map mode has "times" and "skip" converted in
\* place, err holding the result of the last conversion made.
EnableMode(fp) ==
  IF fp.Mode.kind # "map"
  THEN [fp |-> fp, err |-> Nil]
  ELSE LET t == IF fp.Mode.times # <<>>
                THEN interfaceToInt32(fp.Mode.times[1]) ELSE [val |-> 0, err |-> Nil]
           k == IF fp.Mode.skip # <<>>
                THEN interfaceToInt32(fp.Mode.skip[1]) ELSE [val |-> 0, err |-> Nil]
           times == IF fp.Mode.times # <<>>
                    THEN <<[type |-> "int32", val |-> t.val]>> ELSE <<>>
           skip == IF fp.Mode.skip # <<>>
                   THEN <<[type |-> "int32", val |-> k.val]>> ELSE <<>>
       IN [fp |-> [fp EXCEPT !.Mode = [kind |-> "map", times |-> times, skip |-> skip]],
           err |-> IF fp.Mode.skip # <<>> THEN k.err ELSE t.err]

\* The TeardownFunc Enable returns: the command it runs on the admin database.
TeardownFunc(fp) ==
  [ConfigureFailPoint |-> fp.ConfigureFailPoint,
   Mode |-> [kind |-> "string", str |-> ModeOff]]

\* The test calls Enable(t, client, fp). A failed require ends the test
\* function (t.FailNow), whose deferred calls then run. ok is whether the
\* server accepts the command; keep is whether the test defers the returned
\* TeardownFunc or drops it.
Enable(fp, ok, keep) ==
  /\ fpPc = "body"
  /\ fpCalls < MaxEnableCalls
  /\ fpCalls' = fpCalls + 1
  /\ LET m == EnableMode(fp)
     IN IF m.err # Nil \/ ~ok
        THEN /\ fpFailed' = TRUE
             /\ fpPc' = "deferred"
             /\ UNCHANGED <<fpDeferred, fpAdminCmds, fpEnabled>>
        ELSE /\ fpAdminCmds' = Append(fpAdminCmds, m.fp)
             /\ fpEnabled' = fpEnabled \cup {Len(fpAdminCmds) + 1}
             /\ fpDeferred' = IF keep THEN Append(fpDeferred, m.fp) ELSE fpDeferred
             /\ UNCHANGED <<fpPc, fpFailed>>

\* The test function returns: its deferred calls run next.
TestReturn ==
  /\ fpPc = "body"
  /\ fpPc' = "deferred"
  /\ UNCHANGED <<fpFailed, fpCalls, fpDeferred, fpAdminCmds, fpEnabled>>

\* The last deferred TeardownFunc runs: configureFailPoint with mode off. When
\* the command fails its require fails the test; the other defers still run.
RunTeardown(ok) ==
  /\ fpPc = "deferred"
  /\ fpDeferred # <<>>
  /\ fpDeferred' = SubSeq(fpDeferred, 1, Len(fpDeferred) - 1)
  /\ IF ok
     THEN /\ fpAdminCmds' = Append(fpAdminCmds, TeardownFunc(fpDeferred[Len(fpDeferred)]))
          /\ UNCHANGED fpFailed
     ELSE /\ fpFailed' = TRUE
          /\ UNCHANGED fpAdminCmds
  /\ UNCHANGED <<fpPc, fpCalls, fpEnabled>>

\* All deferred calls have run; Enable registered no cleanup with t, so the
\* test is over.
TestDone ==
  /\ fpPc = "deferred"
  /\ fpDeferred = <<>>
  /\ fpPc' = "done"
  /\ UNCHANGED <<fpFailed, fpCalls, fpDeferred, fpAdminCmds, fpEnabled>>

FPNext ==
  \/ \E fp \in FailPoints, ok \in BOOLEAN, keep \in BOOLEAN : Enable(fp, ok, keep)
  \/ TestReturn
  \/ \E ok \in BOOLEAN : RunTeardown(ok)
  \/ TestDone

(***************************************************************************)
(* mongoindex.AwaitIndex                                                   *)
(***************************************************************************)

\* Number of times AwaitIndex sleeps before it lists the indexes again.
MaxPolls == 2

IndexNames == {"default", "other"}

VARIABLES
  aiIndexes,     \* the collection's search indexes: name -> "absent",
                 \* "building" (listed, not queryable) or "queryable"
  aiSearchName,  \* the searchName argument
  aiCtxDone,     \* the deadline of ctx has passed
  aiPc,          \* "loop", "sleep", "returned", or "failed" (require failed)
  aiDoc,         \* the local doc: <<>> when nil, <<d>> otherwise
  aiPolls        \* the number of sleeps so far

aiVars == <<aiIndexes, aiSearchName, aiCtxDone, aiPc, aiDoc, aiPolls>>

AIInit ==
  /\ aiIndexes \in [IndexNames -> {"absent", "building"}]
  /\ aiSearchName \in IndexNames
  /\ aiCtxDone = FALSE
  /\ aiPc = "loop"
  /\ aiDoc = <<>>
  /\ aiPolls = 0

\* siv.List(ctx, SetName(searchName)): the documents of the listed indexes
\* with that name, as the cursor yields them.
ListSearchIndexes(indexes, searchName) ==
  IF indexes[searchName] = "absent" THEN <<>>
  ELSE <<[name |-> searchName, queryable |-> indexes[searchName] = "queryable"]>>

\* One iteration of the loop of AwaitIndex, entered with doc == nil.
AwaitIndexIteration ==
  /\ aiPc = "loop"
  /\ IF aiCtxDone
     THEN \* List returns an error, require.NoError stops the test
          /\ aiPc' = "failed"
          /\ UNCHANGED aiDoc
     ELSE LET cursor == ListSearchIndexes(aiIndexes, aiSearchName)
          IN IF cursor = <<>>
             THEN \* !cursor.Next(ctx): break, return doc
                  /\ aiPc' = "returned"
                  /\ UNCHANGED aiDoc
             ELSE IF cursor[1].name = aiSearchName /\ cursor[1].queryable
             THEN \* doc = cursor.Current ends the loop
                  /\ aiDoc' = <<cursor[1]>>
                  /\ aiPc' = "returned"
             ELSE /\ aiPc' = "sleep"
                  /\ UNCHANGED aiDoc
  /\ UNCHANGED <<aiIndexes, aiSearchName, aiCtxDone, aiPolls>>

\* time.Sleep(100 * time.Millisecond) returns and the loop tests doc == nil.
AwaitIndexSleep ==
  /\ aiPc = "sleep"
  /\ aiPolls < MaxPolls
  /\ aiPolls' = aiPolls + 1
  /\ aiPc' = "loop"
  /\ UNCHANGED <<aiIndexes, aiSearchName, aiCtxDone, aiDoc>>

\* The server starts to build an index the test created.
IndexCreated(n) ==
  /\ aiIndexes[n] = "absent"
  /\ aiIndexes' = [aiIndexes EXCEPT ![n] = "building"]
  /\ UNCHANGED <<aiSearchName, aiCtxDone, aiPc, aiDoc, aiPolls>>

\* The server finishes building an index.
IndexQueryable(n) ==
  /\ aiIndexes[n] = "building"
  /\ aiIndexes' = [aiIndexes EXCEPT ![n] = "queryable"]
  /\ UNCHANGED <<aiSearchName, aiCtxDone, aiPc, aiDoc, aiPolls>>

\* The deadline of the context the caller passed expires.
ContextDeadline ==
  /\ ~aiCtxDone
  /\ aiPc \in {"loop", "sleep"}
  /\ aiCtxDone' = TRUE
  /\ UNCHANGED <<aiIndexes, aiSearchName, aiPc, aiDoc, aiPolls>>

AINext ==
  \/ AwaitIndexIteration
  \/ AwaitIndexSleep
  \/ \E n \in IndexNames : IndexCreated(n)
  \/ \E n \in IndexNames : IndexQueryable(n)
  \/ ContextDeadline

(***************************************************************************)
(* mongolocal.New, NewWithEnv and NewV1                                    *)
(***************************************************************************)

\* Number of Option arguments of one call.
MaxOptions == 2

EntryPoints == {"New", "NewWithEnv", "NewV1"}

DefaultImage == "mongo:latest"
EnterpriseImage == "mongodb/mongodb-enterprise-server:latest"

\* The Option values a caller passes (their arguments are not nil).
OptionFuncs ==
  {[kind |-> "WithMongoClientOptions", arg |-> "optsV2"],
   [kind |-> "WithMongoClientOptionsV1", arg |-> "optsV1"],
   [kind |-> "WithImage", arg |-> "mongo:4.4"],
   [kind |-> "WithEnableTestCommands", arg |-> Nil],
   [kind |-> "WithReplicaSet", arg |-> "rs0"],
   [kind |-> "WithOIDC", arg |-> "cfg"]}

\* The zero value of the options struct.
ZeroOptions ==
  [mongoClientOpts |-> Nil, mongoClientOptsV1 |-> Nil, image |-> "",
   enableTestCommands |-> FALSE, replSetName |-> "", oidcConfig |-> Nil]

\* An Option applied to the options struct o.
ApplyOption(f, o) ==
  CASE f.kind = "WithMongoClientOptions" -> [o EXCEPT !.mongoClientOpts = f.arg]
    [] f.kind = "WithMongoClientOptionsV1" -> [o EXCEPT !.mongoClientOptsV1 = f.arg]
    [] f.kind = "WithImage" -> [o EXCEPT !.image = f.arg]
    [] f.kind = "WithEnableTestCommands" -> [o EXCEPT !.enableTestCommands = TRUE]
    [] f.kind = "WithReplicaSet" -> [o EXCEPT !.replSetName = f.arg]
    [] f.kind = "WithOIDC" -> [o EXCEPT !.oidcConfig = f.arg]

\* for _, apply := range optionFuncs { apply(opts) }, from element i on.
RECURSIVE ApplyOptions(_, _, _)
ApplyOptions(fs, i, o) ==
  IF i > Len(fs) THEN o ELSE ApplyOptions(fs, i + 1, ApplyOption(fs[i], o))

\* needsCustomWaitStrategy: the major version of a mongo:<n>.<m> image is
\* at most 4.
needsCustomWaitStrategy(image) == image = "mongo:4.4"

\* The Option arguments new is called with: NewV1 appends default v1 client
\* options when the caller gave none.
EntryOptionFuncs(entry, fs) ==
  IF entry = "NewV1" /\ ApplyOptions(fs, 1, ZeroOptions).mongoClientOptsV1 = Nil
  THEN Append(fs, [kind |-> "WithMongoClientOptionsV1", arg |-> "defaultV1"])
  ELSE fs

VARIABLES
  mlEntry,        \* the function the test calls
  mlOptionFuncs,  \* the Option arguments of that call
  mlOpts,         \* the options struct of new
  mlPc,           \* "call", "run", "connect", "return", "returned", "failed"
  mlFailure,      \* the message the test failed with, Nil otherwise
  mlContainer,    \* <<>>, or <<c>> for the container mongodb.Run started
  mlResult,       \* the newResult: the clients connected
  mlReturned      \* the client the entry point returned, Nil for a nil one

mlVars == <<mlEntry, mlOptionFuncs, mlOpts, mlPc, mlFailure, mlContainer,
            mlResult, mlReturned>>

NoResult == [clientV1 |-> Nil, clientV2 |-> Nil]

MLInit ==
  /\ mlEntry \in EntryPoints
  /\ mlOptionFuncs \in SeqsUpTo(OptionFuncs, MaxOptions)
  /\ mlOpts = ZeroOptions
  /\ mlPc = "call"
  /\ mlFailure = Nil
  /\ mlContainer = <<>>
  /\ mlResult = NoResult
  /\ mlReturned = Nil

\* The image new runs: OIDC replaces it by the enterprise server image.
RunImage(o) == IF o.oidcConfig # Nil THEN EnterpriseImage ELSE o.image

\* The container customizers new collects, as the set of what they configure.
ContainerOpts(o) ==
  (IF needsCustomWaitStrategy(RunImage(o)) THEN {"waitStrategy"} ELSE {})
    \cup (IF o.enableTestCommands THEN {"enableTestCommands=1"} ELSE {})
    \cup (IF o.oidcConfig # Nil THEN {"oidcIdentityProviders"} ELSE {})
    \cup (IF o.replSetName # "" THEN {"replSet"} ELSE {})

\* new up to mongodb.Run: the options are applied and checked, and OIDC is
\* set up (oidcFiles: the secrets and the token file exist).
NewCheckOptions(oidcFiles) ==
  /\ mlPc = "call"
  /\ LET o == ApplyOptions(EntryOptionFuncs(mlEntry, mlOptionFuncs), 1,
                           [ZeroOptions EXCEPT !.image = DefaultImage])
     IN /\ mlOpts' = o
        /\ IF o.mongoClientOpts # Nil /\ o.mongoClientOptsV1 # Nil
           THEN /\ mlPc' = "failed"
                /\ mlFailure' = "mongo.Client options v1 and v2 cannot both be set"
           ELSE IF ~(o.oidcConfig = Nil \/ o.oidcConfig # Nil)
           THEN /\ mlPc' = "failed"
                /\ mlFailure' = "OIDC requires using a replica set"
           ELSE IF ~(o.oidcConfig = Nil \/ o.image = EnterpriseImage
                       \/ o.image = DefaultImage)
           THEN /\ mlPc' = "failed"
                /\ mlFailure' = "OIDC requires using the enterprise image"
           ELSE IF o.oidcConfig # Nil /\ ~oidcFiles
           THEN /\ mlPc' = "failed"
                /\ mlFailure' = "OIDC setup required"
           ELSE /\ mlPc' = "run"
                /\ UNCHANGED mlFailure
  /\ UNCHANGED <<mlEntry, mlOptionFuncs, mlContainer, mlResult, mlReturned>>

\* mongodb.Run(ctx, opts.image, containerOpts...) and require.NoError.
NewRunContainer(ok) ==
  /\ mlPc = "run"
  /\ IF ok
     THEN /\ mlContainer' = <<[image |-> RunImage(mlOpts),
                               containerOpts |-> ContainerOpts(mlOpts)]>>
          /\ mlPc' = "connect"
          /\ UNCHANGED mlFailure
     ELSE /\ mlPc' = "failed"
          /\ mlFailure' = "failed to start mongolocal container"
          /\ UNCHANGED mlContainer
  /\ UNCHANGED <<mlEntry, mlOptionFuncs, mlOpts, mlResult, mlReturned>>

\* The rest of new: the connection string, then the v1 client when v1
\* options are set and the v2 client otherwise, connected and pinged
\* (connOk: the connection string and Connect succeed; pingOk: a Ping
\* succeeds within the 60 seconds of require.Eventually).
NewConnect(connOk, pingOk) ==
  /\ mlPc = "connect"
  /\ IF ~connOk
     THEN /\ mlPc' = "failed"
          /\ mlFailure' = "failed to connect"
          /\ UNCHANGED mlResult
     ELSE IF ~pingOk
     THEN /\ mlPc' = "failed"
          /\ mlFailure' = "Condition never satisfied"
          /\ UNCHANGED mlResult
     ELSE /\ mlResult' = IF mlOpts.mongoClientOptsV1 # Nil
                         THEN [NoResult EXCEPT !.clientV1 = "connected v1 client"]
                         ELSE [NoResult EXCEPT !.clientV2 = "connected v2 client"]
          /\ mlPc' = "return"
          /\ UNCHANGED mlFailure
  /\ UNCHANGED <<mlEntry, mlOptionFuncs, mlOpts, mlContainer, mlReturned>>

\* New, NewWithEnv and NewV1 return a client of the result of new.
EntryReturn ==
  /\ mlPc = "return"
  /\ mlReturned' = IF mlEntry = "NewV1" THEN mlResult.clientV1 ELSE mlResult.clientV2
  /\ mlPc' = "returned"
  /\ UNCHANGED <<mlEntry, mlOptionFuncs, mlOpts, mlFailure, mlContainer, mlResult>>

MLNext ==
  \/ \E oidcFiles \in BOOLEAN : NewCheckOptions(oidcFiles)
  \/ \E ok \in BOOLEAN : NewRunContainer(ok)
  \/ \E connOk \in BOOLEAN, pingOk \in BOOLEAN : NewConnect(connOk, pingOk)
  \/ EntryReturn

(***************************************************************************)
(* awsKMSProvider.UnmarshalBSON                                            *)
(***************************************************************************)

Placeholder == "$$placeholder"

\* The fields of awsKMSProvider and a field it does not have.
AllowedKeys == {"accessKeyId", "secretAccessKey", "sessionToken"}
DocKeys == AllowedKeys \cup {"region"}

\* BSON values: strings, and an int32 that does not decode into a string.
StringValues == {[type |-> "string", v |-> s] : s \in {"", Placeholder, "given"}}
DocValues == StringValues \cup {[type |-> "int32", v |-> "1"]}

\* The documents UnmarshalBSON is called with: well-formed documents as the
\* function from their keys to their values, and bytes that are no document.
Malformed == [valid |-> FALSE, elems |-> [k \in {} |-> Nil]]
KMSDocs ==
  {Malformed} \cup
    {[valid |-> TRUE, elems |-> e] :
       e \in {f \in UNION {[S -> DocValues] : S \in SUBSET DocKeys} :
                "region" \in DOMAIN f => f["region"] = [type |-> "string", v |-> "given"]}}

EnvNames ==
  {"FLE_AWS_KEY", "FLE_AWS_SECRET", "CSFLE_AWS_TEMP_ACCESS_KEY_ID",
   "CSFLE_AWS_TEMP_SECRET_ACCESS_KEY", "CSFLE_AWS_TEMP_SESSION_TOKEN"}

\* The environment: os.Getenv of an unset variable is "".
Environments ==
  {e \in [EnvNames -> {""} \cup {"value of " \o n : n \in EnvNames}] :
     \A n \in EnvNames : e[n] \in {"", "value of " \o n}}

ZeroProvider == [AccessKeyID |-> "", SecretAccessKey |-> "", SessionToken |-> ""]
PriorProvider ==
  [AccessKeyID |-> "prior id", SecretAccessKey |-> "prior secret",
   SessionToken |-> "prior token"]

VARIABLES
  kmsData,   \* the document the provider is decoded from
  kmsEnv,    \* the environment variables
  kmsRecv,   \* the receiver *awskp
  kmsRecv0,  \* the receiver before the call
  kmsErr,    \* the error returned
  kmsPc      \* "start", or "decoded" once UnmarshalBSON has returned

kmsVars == <<kmsData, kmsEnv, kmsRecv, kmsRecv0, kmsErr, kmsPc>>

KMSInit ==
  /\ kmsData \in KMSDocs
  /\ kmsEnv \in Environments
  /\ kmsRecv \in {ZeroProvider, PriorProvider}
  /\ kmsRecv0 = kmsRecv
  /\ kmsErr = Nil
  /\ kmsPc = "start"

\* bson.Unmarshal(data, &tmp) of a string field: the zero value when the
\* document has no such element.
FieldOf(elems, key) == IF key \in DOMAIN elems THEN elems[key].v ELSE ""

\* A mutant of the decoder: the temporary credentials are never selected.
awsUnmarshalBSON_noTemp(data, env, recv) ==
  IF ~data.valid THEN [err |-> "invalid document", recv |-> recv]
  ELSE IF DOMAIN data.elems \ AllowedKeys # {}
  THEN [err |-> "invalid field in aws kms provider", recv |-> recv]
  ELSE IF \E k \in DOMAIN data.elems : data.elems[k].type # "string"
  THEN [err |-> "cannot decode into a string", recv |-> recv]
  ELSE LET id == FieldOf(data.elems, "accessKeyId")
           secret == FieldOf(data.elems, "secretAccessKey")
           token == FieldOf(data.elems, "sessionToken")
       IN [err |-> Nil,
           recv |-> [AccessKeyID |-> IF id = "" THEN env["FLE_AWS_KEY"] ELSE id,
                     SecretAccessKey |->
                       IF secret = "" THEN env["FLE_AWS_SECRET"] ELSE secret,
                     SessionToken |->
                       IF token = Placeholder
                       THEN env["CSFLE_AWS_TEMP_SESSION_TOKEN"] ELSE token]]

\* awsKMSProvider.UnmarshalBSON: the error returned and the receiver after
\* the call.
awsUnmarshalBSON(data, env, recv) ==
  IF ~data.valid THEN [err |-> "invalid document", recv |-> recv]
  ELSE IF DOMAIN data.elems \ AllowedKeys # {}
  THEN [err |-> "invalid field in aws kms provider", recv |-> recv]
  ELSE IF \E k \in DOMAIN data.elems : data.elems[k].type # "string"
  THEN [err |-> "cannot decode into a string", recv |-> recv]
  ELSE LET id == FieldOf(data.elems, "accessKeyId")
           secret == FieldOf(data.elems, "secretAccessKey")
           token == FieldOf(data.elems, "sessionToken")
           temp == token = Placeholder
           accessKeyEnv == IF temp THEN "CSFLE_AWS_TEMP_ACCESS_KEY_ID"
                           ELSE "FLE_AWS_KEY"
           secretKeyEnv == IF temp THEN "CSFLE_AWS_TEMP_SECRET_ACCESS_KEY"
                           ELSE "FLE_AWS_SECRET"
       IN [err |-> Nil,
           recv |-> [AccessKeyID |-> IF id = "" THEN env[accessKeyEnv] ELSE id,
                     SecretAccessKey |->
                       IF secret = "" THEN env[secretKeyEnv] ELSE secret,
                     SessionToken |->
                       IF temp THEN env["CSFLE_AWS_TEMP_SESSION_TOKEN"] ELSE token]]

\* The decoder calls UnmarshalBSON on the provider.
KMSUnmarshal ==
  /\ kmsPc = "start"
  /\ LET r == awsUnmarshalBSON(kmsData, kmsEnv, kmsRecv)
     IN /\ kmsErr' = r.err
        /\ kmsRecv' = r.recv
  /\ kmsPc' = "decoded"
  /\ UNCHANGED <<kmsData, kmsEnv, kmsRecv0>>

KMSNext == KMSUnmarshal

(***************************************************************************)
(* addLineItem (TestMGD_RequireExistingTransaction)                        *)
(***************************************************************************)

\* Number of calls of addLineItem in one test.
MaxAddLineItem == 2

Sessions == {"s1", "s2"}
Items == {"widget", "gadget"}

ErrRequiresTransaction == "this operation requires an existing transaction"

\* A session the driver handed out: the state of its transaction and the
\* documents written inside the transaction that is open.
NewSession == [state |-> "None", pending |-> <<>>]

\* sess.StartTransaction(): an error while a transaction is starting or in
\* progress, a transaction that is starting otherwise.
StartTransaction(s) ==
  IF s.state \in {"Starting", "InProgress"}
  THEN [err |-> "transaction already in progress", sess |-> s]
  ELSE [err |-> Nil, sess |-> [state |-> "Starting", pending |-> <<>>]]

\* sess.AbortTransaction(ctx): the open transaction is discarded.
AbortTransaction(s) ==
  IF s.state \in {"Starting", "InProgress"}
  THEN [err |-> Nil, sess |-> [state |-> "Aborted", pending |-> <<>>]]
  ELSE [err |-> "no transaction to abort", sess |-> s]

\* coll.InsertOne(ctx, doc) with the session of ctx: inside the open
\* transaction when there is one, directly into the collection otherwise.
InsertOne(s, coll, doc) ==
  IF s.state \in {"Starting", "InProgress"}
  THEN [err |-> Nil, coll |-> coll,
        sess |-> [state |-> "InProgress", pending |-> Append(s.pending, doc)]]
  ELSE [err |-> Nil, coll |-> Append(coll, doc),
        sess |-> [state |-> "None", pending |-> <<>>]]

\* sess.CommitTransaction(ctx): the documents of the open transaction are
\* added to the collection.
CommitTransaction(s, coll) ==
  IF s.state \in {"Starting", "InProgress"}
  THEN [err |-> Nil, coll |-> coll \o s.pending,
        sess |-> [state |-> "Committed", pending |-> <<>>]]
  ELSE IF s.state = "Committed"
  THEN [err |-> Nil, coll |-> coll, sess |-> s]
  ELSE [err |-> "no transaction to commit", coll |-> coll, sess |-> s]

\* A mutant of addLineItem: the transaction it started as a probe is not
\* aborted.
addLineItem_noAbort(s, coll, item) ==
  LET started == StartTransaction(s)
      ins == InsertOne(s, coll, item)
  IN IF started.err = Nil
     THEN [err |-> ErrRequiresTransaction, sess |-> started.sess, coll |-> coll]
     ELSE [err |-> ins.err, sess |-> ins.sess, coll |-> ins.coll]

\* addLineItem(ctx, sess, item): the error it returns, the session and the
\* collection after the call.
addLineItem(s, coll, item) ==
  LET started == StartTransaction(s)
      aborted == AbortTransaction(started.sess)
      ins == InsertOne(s, coll, item)
  IN IF started.err = Nil
     THEN [err |-> ErrRequiresTransaction, sess |-> aborted.sess, coll |-> coll]
     ELSE [err |-> ins.err, sess |-> ins.sess, coll |-> ins.coll]

VARIABLES
  txSess,     \* the sessions the test started
  txEnded,    \* the sessions the test has ended
  txColl,     \* the documents of the collection
  txCalls,    \* the calls of addLineItem so far, with what they were
              \* called on and what they left
  txCommits   \* the CommitTransaction calls so far

txVars == <<txSess, txEnded, txColl, txCalls, txCommits>>

TXInit ==
  /\ txSess = [s \in Sessions |-> NewSession]
  /\ txEnded = {}
  /\ txColl = <<>>
  /\ txCalls = <<>>
  /\ txCommits = <<>>

\* The test starts a transaction on one of its sessions.
TestStartTransaction(s) ==
  /\ s \notin txEnded
  /\ StartTransaction(txSess[s]).err = Nil
  /\ txSess' = [txSess EXCEPT ![s] = StartTransaction(txSess[s]).sess]
  /\ UNCHANGED <<txEnded, txColl, txCalls, txCommits>>

\* The test calls addLineItem with one of its sessions.
TestAddLineItem(s, item) ==
  /\ s \notin txEnded
  /\ Len(txCalls) < MaxAddLineItem
  /\ LET r == addLineItem(txSess[s], txColl, item)
     IN /\ txSess' = [txSess EXCEPT ![s] = r.sess]
        /\ txColl' = r.coll
        /\ txCalls' = Append(txCalls,
             [sess |-> s, item |-> item, err |-> r.err,
              before |-> txSess[s], after |-> r.sess,
              collBefore |-> txColl, collAfter |-> r.coll])
  /\ UNCHANGED <<txEnded, txCommits>>

\* The test commits the transaction of a session.
TestCommitTransaction(s) ==
  /\ s \notin txEnded
  /\ LET r == CommitTransaction(txSess[s], txColl)
     IN /\ txSess' = [txSess EXCEPT ![s] = r.sess]
        /\ txColl' = r.coll
        /\ txCommits' = Append(txCommits,
             [sess |-> s, err |-> r.err, before |-> txSess[s]])
  /\ Len(txCommits) < MaxAddLineItem
  /\ UNCHANGED <<txEnded, txCalls>>

\* The deferred sess.EndSession: an open transaction is aborted and the
\* session is not used again.
TestEndSession(s) ==
  /\ s \notin txEnded
  /\ txEnded' = txEnded \cup {s}
  /\ txSess' = [txSess EXCEPT ![s] =
                  IF AbortTransaction(txSess[s]).err = Nil
                  THEN AbortTransaction(txSess[s]).sess ELSE txSess[s]]
  /\ UNCHANGED <<txColl, txCalls, txCommits>>

TXNext ==
  \/ \E s \in Sessions : TestStartTransaction(s)
  \/ \E s \in Sessions, item \in Items : TestAddLineItem(s, item)
  \/ \E s \in Sessions : TestCommitTransaction(s)
  \/ \E s \in Sessions : TestEndSession(s)

(***************************************************************************)
(* read32 and readi32                                                      *)
(***************************************************************************)

\* Longest byte slice read.
MaxSrcLen == 5

\* The byte values the slices are built from.
ByteValues == {0, 1, 127, 128, 255}

ByteSlices == SeqsUpTo(ByteValues, MaxSrcLen)

\* src[4:]
SliceFrom4(src) == SubSeq(src, 5, Len(src))

\* binary.LittleEndian.Uint32(src), as the two 16-bit halves of the uint32.
LittleEndianUint32(src) ==
  [lo |-> src[1] + 256 * src[2], hi |-> src[3] + 256 * src[4]]

\* The conversion T(u) of a uint32 to int32: the value modulo 2^32 that lies
\* in the range of int32.
Uint32ToInt32(u) ==
  IF u.hi >= 32768 THEN (u.hi - 65536) * 65536 + u.lo ELSE u.hi * 65536 + u.lo

\* Byte k (0 the lowest) of the two's-complement representation of an int32.
ByteOfInt32(x, k) ==
  CASE k = 0 -> x % 256
    [] k = 1 -> (x \div 256) % 256
    [] k = 2 -> (x \div 65536) % 256
    [] k = 3 -> (x \div 16777216) % 256

\* The int32 with the given four bytes.
Int32OfBytes(b) ==
  b[0] + 256 * b[1] + 65536 * b[2]
    + 16777216 * (IF b[3] >= 128 THEN b[3] - 256 ELSE b[3])

\* Bitwise or of two bytes.
RECURSIVE ByteOr(_, _, _)
ByteOr(a, b, bits) ==
  IF bits = 0 THEN 0
  ELSE (IF a % 2 = 1 \/ b % 2 = 1 THEN 1 ELSE 0)
         + 2 * ByteOr(a \div 2, b \div 2, bits - 1)

\* x | y on int32.
Or32(x, y) ==
  Int32OfBytes([k \in 0 .. 3 |-> ByteOr(ByteOfInt32(x, k), ByteOfInt32(y, k), 8)])

\* x << n on int32, for n a multiple of 8: the bytes move up, the bytes
\* shifted out are lost.
Shl32(x, n) ==
  Int32OfBytes([k \in 0 .. 3 |->
                  IF 8 * k >= n THEN ByteOfInt32(x, k - (n \div 8)) ELSE 0])

\* read32[int32](src)
read32(src) ==
  IF Len(src) < 4 THEN [value |-> 0, rest |-> src, ok |-> FALSE]
  ELSE [value |-> Uint32ToInt32(LittleEndianUint32(src)),
        rest |-> SliceFrom4(src), ok |-> TRUE]

\* A mutant of readi32: the bytes are combined in big-endian order.
readi32_bigEndian(src) ==
  IF Len(src) < 4 THEN [value |-> 0, rest |-> src, ok |-> FALSE]
  ELSE [value |-> Or32(Or32(Or32(src[4], Shl32(src[3], 8)), Shl32(src[2], 16)),
                       Shl32(src[1], 24)),
        rest |-> SliceFrom4(src), ok |-> TRUE]

\* readi32(src)
readi32(src) ==
  IF Len(src) < 4 THEN [value |-> 0, rest |-> src, ok |-> FALSE]
  ELSE [value |-> Or32(Or32(Or32(src[1], Shl32(src[2], 8)), Shl32(src[3], 16)),
                       Shl32(src[4], 24)),
        rest |-> SliceFrom4(src), ok |-> TRUE]

VARIABLES
  r32Src,     \* the byte slice read
  r32Ret,     \* what read32[int32] returned: <<>> before the call
  ri32Ret     \* what readi32 returned: <<>> before the call

r32Vars == <<r32Src, r32Ret, ri32Ret>>

R32Init ==
  /\ r32Src \in ByteSlices
  /\ r32Ret = <<>>
  /\ ri32Ret = <<>>

CallRead32 ==
  /\ r32Ret = <<>>
  /\ r32Ret' = <<read32(r32Src)>>
  /\ UNCHANGED <<r32Src, ri32Ret>>

CallReadi32 ==
  /\ ri32Ret = <<>>
  /\ ri32Ret' = <<readi32(r32Src)>>
  /\ UNCHANGED <<r32Src, r32Ret>>

R32Next == CallRead32 \/ CallReadi32

(***************************************************************************)
(* tlsDetectorConn (tlsTrackingDialer)                                     *)
(***************************************************************************)

\* Number of Read and Write calls on one connection.
MaxConnIO == 3

\* The goroutines that use the connection: one reads, one writes.
ConnUsers == {"Read", "Write"}

\* A chunk of n bytes whose first bytes are b0 and b1.
MakeChunk(b0, b1, n) ==
  [i \in 1 .. n |-> IF i = 1 THEN b0 ELSE IF i = 2 THEN b1 ELSE 0]

\* The chunks b[:n] read or written: starts of TLS records (0x16 0x03) and of
\* wire protocol messages, of the lengths around the two thresholds.
DataChunks ==
  {MakeChunk(22, 3, 2), MakeChunk(22, 3, 3), MakeChunk(22, 3, 16),
   MakeChunk(22, 0, 16), MakeChunk(1, 0, 15), MakeChunk(1, 0, 16)}

VARIABLES
  tdOnConnect,  \* the dialer's onConnect is not nil
  tdReported,   \* the field reported of the connection
  tdMu,         \* the goroutine that holds c.mu, Nil when it is free
  tdPc,         \* per goroutine: "idle", "detect", "locked", "unlock"
  tdData,       \* per goroutine: the chunk passed to detectTLS
  tdIO,         \* the number of Read and Write calls so far
  tdCalls,      \* the isTLS arguments onConnect was invoked with, in order
  tdSeen        \* the chunks detectTLS examined, in the order of c.mu

tdVars == <<tdOnConnect, tdReported, tdMu, tdPc, tdData, tdIO, tdCalls, tdSeen>>

\* DialContext: the wrapper around a new connection.
TDInit ==
  /\ tdOnConnect \in BOOLEAN
  /\ tdReported = FALSE
  /\ tdMu = Nil
  /\ tdPc = [g \in ConnUsers |-> "idle"]
  /\ tdData = [g \in ConnUsers |-> <<>>]
  /\ tdIO = 0
  /\ tdCalls = <<>>
  /\ tdSeen = <<>>

\* A mutant of detectTLS: the field reported is never set.
detectTLS_noFlag(reported, data, hasCallback) ==
  IF reported \/ Len(data) = 0
  THEN [reported |-> reported, calls |-> <<>>]
  ELSE IF Len(data) >= 3 /\ data[1] = 22 /\ data[2] = 3
  THEN [reported |-> reported, calls |-> IF hasCallback THEN <<TRUE>> ELSE <<>>]
  ELSE IF data[1] # 22 /\ Len(data) >= 16
  THEN [reported |-> reported, calls |-> IF hasCallback THEN <<FALSE>> ELSE <<>>]
  ELSE [reported |-> reported, calls |-> <<>>]

\* The body of detectTLS, run with c.mu held: the field reported afterwards
\* and the isTLS arguments of the calls of onConnect it makes.
detectTLS(reported, data, hasCallback) ==
  IF reported \/ Len(data) = 0
  THEN [reported |-> reported, calls |-> <<>>]
  ELSE IF Len(data) >= 3 /\ data[1] = 22 /\ data[2] = 3
  THEN [reported |-> TRUE, calls |-> IF hasCallback THEN <<TRUE>> ELSE <<>>]
  ELSE IF data[1] # 22 /\ Len(data) >= 16
  THEN [reported |-> TRUE, calls |-> IF hasCallback THEN <<FALSE>> ELSE <<>>]
  ELSE [reported |-> reported, calls |-> <<>>]

\* Read or Write: the wrapped connection transfers b[:n]; detectTLS is
\* called when n > 0 (data is <<>> when n = 0).
ConnTransfer(g, data) ==
  /\ tdPc[g] = "idle"
  /\ tdIO < MaxConnIO
  /\ tdIO' = tdIO + 1
  /\ IF Len(data) > 0
     THEN /\ tdPc' = [tdPc EXCEPT ![g] = "detect"]
          /\ tdData' = [tdData EXCEPT ![g] = data]
     ELSE UNCHANGED <<tdPc, tdData>>
  /\ UNCHANGED <<tdOnConnect, tdReported, tdMu, tdCalls, tdSeen>>

\* c.mu.Lock()
DetectLock(g) ==
  /\ tdPc[g] = "detect"
  /\ tdMu = Nil
  /\ tdMu' = g
  /\ tdPc' = [tdPc EXCEPT ![g] = "locked"]
  /\ UNCHANGED <<tdOnConnect, tdReported, tdData, tdIO, tdCalls, tdSeen>>

\* The body of detectTLS.
DetectBody(g) ==
  /\ tdPc[g] = "locked"
  /\ LET r == detectTLS(tdReported, tdData[g], tdOnConnect)
     IN /\ tdReported' = r.reported
        /\ tdCalls' = tdCalls \o r.calls
  /\ tdSeen' = Append(tdSeen, tdData[g])
  /\ tdPc' = [tdPc EXCEPT ![g] = "unlock"]
  /\ UNCHANGED <<tdOnConnect, tdMu, tdData, tdIO>>

\* The deferred c.mu.Unlock(); Read or Write returns.
DetectUnlock(g) ==
  /\ tdPc[g] = "unlock"
  /\ tdMu' = Nil
  /\ tdPc' = [tdPc EXCEPT ![g] = "idle"]
  /\ tdData' = [tdData EXCEPT ![g] = <<>>]
  /\ UNCHANGED <<tdOnConnect, tdReported, tdIO, tdCalls, tdSeen>>

TDNext ==
  \/ \E g \in ConnUsers, data \in DataChunks \cup {<<>>} : ConnTransfer(g, data)
  \/ \E g \in ConnUsers : DetectLock(g)
  \/ \E g \in ConnUsers : DetectBody(g)
  \/ \E g \in ConnUsers : DetectUnlock(g)

(***************************************************************************)
(* setupCh and the Failed callback of the retryable-write tests 7a and 7b  *)
(***************************************************************************)

\* Number of CommandFailedEvents delivered in one test.
MaxFailedEvents == 3

\* The goroutines the driver delivers events on.
FailedCallers == {"g1", "g2"}

\* The capacity of setupCh.
SetupChCap == 1

\* The function the test queues: it enables the second fail point (10107).
SetupFunc == "enable fail point 10107"

\* CommandFailedEvents: the command name and mongo.ErrorCodes(evt.Failure).
FailedEvents ==
  [CommandName : {"insert"}, ErrorCodes : {<<>>, <<134>>, <<10107>>, <<10107, 134>>}]
    \cup {[CommandName |-> "find", ErrorCodes |-> <<134>>],
          [CommandName |-> "configureFailPoint", ErrorCodes |-> <<>>]}

NoEvent == [CommandName |-> "", ErrorCodes |-> <<>>]

VARIABLES
  rwTest,      \* the test that runs: "7a" or "7b"
  rwPc,        \* the test's position: "enable", "queue", "insert", "done"
  setupCh,     \* the functions buffered in setupCh
  rwCbPc,      \* per goroutine: "idle", "select", "setup"
  rwCbEvt,     \* per goroutine: the event its callback was called with
  rwCbSetup,   \* per goroutine: the function its callback received
  rwEvents,    \* the number of events delivered so far
  rwExecuted   \* the events whose callback ran a queued function, in order

rwVars == <<rwTest, rwPc, setupCh, rwCbPc, rwCbEvt, rwCbSetup, rwEvents, rwExecuted>>

RWInit ==
  /\ rwTest \in {"7a", "7b"}
  /\ rwPc = "enable"
  /\ setupCh = <<>>
  /\ rwCbPc = [g \in FailedCallers |-> "idle"]
  /\ rwCbEvt = [g \in FailedCallers |-> NoEvent]
  /\ rwCbSetup = [g \in FailedCallers |-> Nil]
  /\ rwEvents = 0
  /\ rwExecuted = <<>>

\* A mutant of the condition: the command name is not looked at.
FailedCondition_anyCommand(test, evt) ==
  IF test = "7a" THEN TRUE
  ELSE Len(evt.ErrorCodes) > 0 /\ evt.ErrorCodes[1] = 134

\* The condition under which the Failed callback looks at setupCh.
FailedCondition(test, evt) ==
  IF test = "7a" THEN evt.CommandName = "insert"
  ELSE /\ evt.CommandName = "insert"
       /\ Len(evt.ErrorCodes) > 0
       /\ evt.ErrorCodes[1] = 134

\* select { case setup := <-setupCh: ... default: }: the case taken, the
\* function received and the channel afterwards.
SelectSetup(ch) ==
  IF Len(ch) > 0
  THEN [case |-> "receive", setup |-> Head(ch), ch |-> Tail(ch)]
  ELSE [case |-> "default", setup |-> Nil, ch |-> ch]

\* Step 2 of the test: the first fail point (134) is enabled.
TestEnableFirst ==
  /\ rwPc = "enable"
  /\ rwPc' = "queue"
  /\ UNCHANGED <<rwTest, setupCh, rwCbPc, rwCbEvt, rwCbSetup, rwEvents, rwExecuted>>

\* Step 3 of the test: setupCh <- func() { ... }, which waits while the
\* buffer is full.
TestQueueSetup ==
  /\ rwPc = "queue"
  /\ Len(setupCh) < SetupChCap
  /\ setupCh' = Append(setupCh, SetupFunc)
  /\ rwPc' = "insert"
  /\ UNCHANGED <<rwTest, rwCbPc, rwCbEvt, rwCbSetup, rwEvents, rwExecuted>>

\* Step 5 of the test: InsertOne returns.
TestInsertReturns ==
  /\ rwPc = "insert"
  /\ rwPc' = "done"
  /\ UNCHANGED <<rwTest, setupCh, rwCbPc, rwCbEvt, rwCbSetup, rwEvents, rwExecuted>>

\* The driver calls Failed with evt on goroutine g: the condition is
\* evaluated, and the callback returns when it does not hold.
FailedInvoke(g, evt) ==
  /\ rwCbPc[g] = "idle"
  /\ rwEvents < MaxFailedEvents
  /\ rwEvents' = rwEvents + 1
  /\ IF FailedCondition(rwTest, evt)
     THEN /\ rwCbPc' = [rwCbPc EXCEPT ![g] = "select"]
          /\ rwCbEvt' = [rwCbEvt EXCEPT ![g] = evt]
     ELSE UNCHANGED <<rwCbPc, rwCbEvt>>
  /\ UNCHANGED <<rwTest, rwPc, setupCh, rwCbSetup, rwExecuted>>

\* The select statement of the callback.
FailedSelect(g) ==
  /\ rwCbPc[g] = "select"
  /\ LET s == SelectSetup(setupCh)
     IN /\ setupCh' = s.ch
        /\ rwCbSetup' = [rwCbSetup EXCEPT ![g] = s.setup]
        /\ rwCbPc' = [rwCbPc EXCEPT ![g] =
                        IF s.case = "receive" THEN "setup" ELSE "idle"]
        /\ rwCbEvt' = [rwCbEvt EXCEPT ![g] =
                         IF s.case = "default" THEN NoEvent ELSE rwCbEvt[g]]
  /\ UNCHANGED <<rwTest, rwPc, rwEvents, rwExecuted>>

\* setup(): the function received is executed and the callback returns.
FailedRunSetup(g) ==
  /\ rwCbPc[g] = "setup"
  /\ rwExecuted' = Append(rwExecuted, [evt |-> rwCbEvt[g], setup |-> rwCbSetup[g]])
  /\ rwCbPc' = [rwCbPc EXCEPT ![g] = "idle"]
  /\ rwCbEvt' = [rwCbEvt EXCEPT ![g] = NoEvent]
  /\ rwCbSetup' = [rwCbSetup EXCEPT ![g] = Nil]
  /\ UNCHANGED <<rwTest, rwPc, setupCh, rwEvents>>

RWNext ==
  \/ TestEnableFirst
  \/ TestQueueSetup
  \/ TestInsertReturns
  \/ \E g \in FailedCallers, evt \in FailedEvents : FailedInvoke(g, evt)
  \/ \E g \in FailedCallers : FailedSelect(g)
  \/ \E g \in FailedCallers : FailedRunSetup(g)

(***************************************************************************)
(* Specifications                                                          *)
(***************************************************************************)

vars == <<smVars, pmVars, monVars, tfVars, fpVars, aiVars, mlVars, kmsVars, txVars, r32Vars, tdVars, rwVars>>

\* Every helper in its initial state; the helpers a specification leaves
\* alone are constructed with fixed arguments.
InitServerMonitor ==
  /\ SMInit
  /\ PMInit
  /\ monCmds = <<"getMore">> /\ MonInit
  /\ tfData = [createEntities |-> AbsentField, tests |-> <<>>] /\ TFInit
  /\ FPInit
  /\ aiIndexes = [n \in IndexNames |-> "absent"] /\ aiSearchName = "default" /\ AIInit
  /\ mlEntry = "New" /\ mlOptionFuncs = <<>> /\ MLInit
  /\ kmsData = Malformed /\ kmsEnv = [n \in EnvNames |-> ""] /\ kmsRecv = ZeroProvider /\ KMSInit
  /\ TXInit
  /\ r32Src = <<>> /\ R32Init
  /\ tdOnConnect = TRUE /\ TDInit
  /\ rwTest = "7a" /\ RWInit
InitPool ==
  /\ SMInit
  /\ PMInit
  /\ monCmds = <<"getMore">> /\ MonInit
  /\ tfData = [createEntities |-> AbsentField, tests |-> <<>>] /\ TFInit
  /\ FPInit
  /\ aiIndexes = [n \in IndexNames |-> "absent"] /\ aiSearchName = "default" /\ AIInit
  /\ mlEntry = "New" /\ mlOptionFuncs = <<>> /\ MLInit
  /\ kmsData = Malformed /\ kmsEnv = [n \in EnvNames |-> ""] /\ kmsRecv = ZeroProvider /\ KMSInit
  /\ TXInit
  /\ r32Src = <<>> /\ R32Init
  /\ tdOnConnect = TRUE /\ TDInit
  /\ rwTest = "7a" /\ RWInit
InitMonitor ==
  /\ SMInit
  /\ PMInit
  /\ MonInit
  /\ tfData = [createEntities |-> AbsentField, tests |-> <<>>] /\ TFInit
  /\ FPInit
  /\ aiIndexes = [n \in IndexNames |-> "absent"] /\ aiSearchName = "default" /\ AIInit
  /\ mlEntry = "New" /\ mlOptionFuncs = <<>> /\ MLInit
  /\ kmsData = Malformed /\ kmsEnv = [n \in EnvNames |-> ""] /\ kmsRecv = ZeroProvider /\ KMSInit
  /\ TXInit
  /\ r32Src = <<>> /\ R32Init
  /\ tdOnConnect = TRUE /\ TDInit
  /\ rwTest = "7a" /\ RWInit
InitDecode ==
  /\ SMInit
  /\ PMInit
  /\ monCmds = <<"getMore">> /\ MonInit
  /\ TFInit
  /\ FPInit
  /\ aiIndexes = [n \in IndexNames |-> "absent"] /\ aiSearchName = "default" /\ AIInit
  /\ mlEntry = "New" /\ mlOptionFuncs = <<>> /\ MLInit
  /\ kmsData = Malformed /\ kmsEnv = [n \in EnvNames |-> ""] /\ kmsRecv = ZeroProvider /\ KMSInit
  /\ TXInit
  /\ r32Src = <<>> /\ R32Init
  /\ tdOnConnect = TRUE /\ TDInit
  /\ rwTest = "7a" /\ RWInit
InitFailpoint ==
  /\ SMInit
  /\ PMInit
  /\ monCmds = <<"getMore">> /\ MonInit
  /\ tfData = [createEntities |-> AbsentField, tests |-> <<>>] /\ TFInit
  /\ FPInit
  /\ aiIndexes = [n \in IndexNames |-> "absent"] /\ aiSearchName = "default" /\ AIInit
  /\ mlEntry = "New" /\ mlOptionFuncs = <<>> /\ MLInit
  /\ kmsData = Malformed /\ kmsEnv = [n \in EnvNames |-> ""] /\ kmsRecv = ZeroProvider /\ KMSInit
  /\ TXInit
  /\ r32Src = <<>> /\ R32Init
  /\ tdOnConnect = TRUE /\ TDInit
  /\ rwTest = "7a" /\ RWInit
InitAwaitIndex ==
  /\ SMInit
  /\ PMInit
  /\ monCmds = <<"getMore">> /\ MonInit
  /\ tfData = [createEntities |-> AbsentField, tests |-> <<>>] /\ TFInit
  /\ FPInit
  /\ AIInit
  /\ mlEntry = "New" /\ mlOptionFuncs = <<>> /\ MLInit
  /\ kmsData = Malformed /\ kmsEnv = [n \in EnvNames |-> ""] /\ kmsRecv = ZeroProvider /\ KMSInit
  /\ TXInit
  /\ r32Src = <<>> /\ R32Init
  /\ tdOnConnect = TRUE /\ TDInit
  /\ rwTest = "7a" /\ RWInit
InitMongolocal ==
  /\ SMInit
  /\ PMInit
  /\ monCmds = <<"getMore">> /\ MonInit
  /\ tfData = [createEntities |-> AbsentField, tests |-> <<>>] /\ TFInit
  /\ FPInit
  /\ aiIndexes = [n \in IndexNames |-> "absent"] /\ aiSearchName = "default" /\ AIInit
  /\ MLInit
  /\ kmsData = Malformed /\ kmsEnv = [n \in EnvNames |-> ""] /\ kmsRecv = ZeroProvider /\ KMSInit
  /\ TXInit
  /\ r32Src = <<>> /\ R32Init
  /\ tdOnConnect = TRUE /\ TDInit
  /\ rwTest = "7a" /\ RWInit
InitKMS ==
  /\ SMInit
  /\ PMInit
  /\ monCmds = <<"getMore">> /\ MonInit
  /\ tfData = [createEntities |-> AbsentField, tests |-> <<>>] /\ TFInit
  /\ FPInit
  /\ aiIndexes = [n \in IndexNames |-> "absent"] /\ aiSearchName = "default" /\ AIInit
  /\ mlEntry = "New" /\ mlOptionFuncs = <<>> /\ MLInit
  /\ KMSInit
  /\ TXInit
  /\ r32Src = <<>> /\ R32Init
  /\ tdOnConnect = TRUE /\ TDInit
  /\ rwTest = "7a" /\ RWInit
InitTransaction ==
  /\ SMInit
  /\ PMInit
  /\ monCmds = <<"getMore">> /\ MonInit
  /\ tfData = [createEntities |-> AbsentField, tests |-> <<>>] /\ TFInit
  /\ FPInit
  /\ aiIndexes = [n \in IndexNames |-> "absent"] /\ aiSearchName = "default" /\ AIInit
  /\ mlEntry = "New" /\ mlOptionFuncs = <<>> /\ MLInit
  /\ kmsData = Malformed /\ kmsEnv = [n \in EnvNames |-> ""] /\ kmsRecv = ZeroProvider /\ KMSInit
  /\ TXInit
  /\ r32Src = <<>> /\ R32Init
  /\ tdOnConnect = TRUE /\ TDInit
  /\ rwTest = "7a" /\ RWInit
InitRead32 ==
  /\ SMInit
  /\ PMInit
  /\ monCmds = <<"getMore">> /\ MonInit
  /\ tfData = [createEntities |-> AbsentField, tests |-> <<>>] /\ TFInit
  /\ FPInit
  /\ aiIndexes = [n \in IndexNames |-> "absent"] /\ aiSearchName = "default" /\ AIInit
  /\ mlEntry = "New" /\ mlOptionFuncs = <<>> /\ MLInit
  /\ kmsData = Malformed /\ kmsEnv = [n \in EnvNames |-> ""] /\ kmsRecv = ZeroProvider /\ KMSInit
  /\ TXInit
  /\ R32Init
  /\ tdOnConnect = TRUE /\ TDInit
  /\ rwTest = "7a" /\ RWInit
InitTLSDetector ==
  /\ SMInit
  /\ PMInit
  /\ monCmds = <<"getMore">> /\ MonInit
  /\ tfData = [createEntities |-> AbsentField, tests |-> <<>>] /\ TFInit
  /\ FPInit
  /\ aiIndexes = [n \in IndexNames |-> "absent"] /\ aiSearchName = "default" /\ AIInit
  /\ mlEntry = "New" /\ mlOptionFuncs = <<>> /\ MLInit
  /\ kmsData = Malformed /\ kmsEnv = [n \in EnvNames |-> ""] /\ kmsRecv = ZeroProvider /\ KMSInit
  /\ TXInit
  /\ r32Src = <<>> /\ R32Init
  /\ TDInit
  /\ rwTest = "7a" /\ RWInit
InitRetryableWrite ==
  /\ SMInit
  /\ PMInit
  /\ monCmds = <<"getMore">> /\ MonInit
  /\ tfData = [createEntities |-> AbsentField, tests |-> <<>>] /\ TFInit
  /\ FPInit
  /\ aiIndexes = [n \in IndexNames |-> "absent"] /\ aiSearchName = "default" /\ AIInit
  /\ mlEntry = "New" /\ mlOptionFuncs = <<>> /\ MLInit
  /\ kmsData = Malformed /\ kmsEnv = [n \in EnvNames |-> ""] /\ kmsRecv = ZeroProvider /\ KMSInit
  /\ TXInit
  /\ r32Src = <<>> /\ R32Init
  /\ tdOnConnect = TRUE /\ TDInit
  /\ RWInit

NextServerMonitor ==
  SMNext /\ UNCHANGED <<pmVars, monVars, tfVars, fpVars, aiVars, mlVars, kmsVars, txVars, r32Vars, tdVars, rwVars>>
NextPool ==
  PMNext /\ UNCHANGED <<smVars, monVars, tfVars, fpVars, aiVars, mlVars, kmsVars, txVars, r32Vars, tdVars, rwVars>>
NextMonitor ==
  MonNext /\ UNCHANGED <<smVars, pmVars, tfVars, fpVars, aiVars, mlVars, kmsVars, txVars, r32Vars, tdVars, rwVars>>
NextDecode ==
  TFNext /\ UNCHANGED <<smVars, pmVars, monVars, fpVars, aiVars, mlVars, kmsVars, txVars, r32Vars, tdVars, rwVars>>
NextFailpoint ==
  FPNext /\ UNCHANGED <<smVars, pmVars, monVars, tfVars, aiVars, mlVars, kmsVars, txVars, r32Vars, tdVars, rwVars>>
NextAwaitIndex ==
  AINext /\ UNCHANGED <<smVars, pmVars, monVars, tfVars, fpVars, mlVars, kmsVars, txVars, r32Vars, tdVars, rwVars>>
NextMongolocal ==
  MLNext /\ UNCHANGED <<smVars, pmVars, monVars, tfVars, fpVars, aiVars, kmsVars, txVars, r32Vars, tdVars, rwVars>>
NextKMS ==
  KMSNext /\ UNCHANGED <<smVars, pmVars, monVars, tfVars, fpVars, aiVars, mlVars, txVars, r32Vars, tdVars, rwVars>>
NextTransaction ==
  TXNext /\ UNCHANGED <<smVars, pmVars, monVars, tfVars, fpVars, aiVars, mlVars, kmsVars, r32Vars, tdVars, rwVars>>
NextRead32 ==
  R32Next /\ UNCHANGED <<smVars, pmVars, monVars, tfVars, fpVars, aiVars, mlVars, kmsVars, txVars, tdVars, rwVars>>
NextTLSDetector ==
  TDNext /\ UNCHANGED <<smVars, pmVars, monVars, tfVars, fpVars, aiVars, mlVars, kmsVars, txVars, r32Vars, rwVars>>
NextRetryableWrite ==
  RWNext /\ UNCHANGED <<smVars, pmVars, monVars, tfVars, fpVars, aiVars, mlVars, kmsVars, txVars, r32Vars, tdVars>>

SpecServerMonitor == InitServerMonitor /\ [][NextServerMonitor]_vars
SpecPool == InitPool /\ [][NextPool]_vars
SpecMonitor == InitMonitor /\ [][NextMonitor]_vars
SpecDecode == InitDecode /\ [][NextDecode]_vars
SpecFailpoint == InitFailpoint /\ [][NextFailpoint]_vars
SpecAwaitIndex == InitAwaitIndex /\ [][NextAwaitIndex]_vars
SpecMongolocal == InitMongolocal /\ [][NextMongolocal]_vars
SpecKMS == InitKMS /\ [][NextKMS]_vars
SpecTransaction == InitTransaction /\ [][NextTransaction]_vars
SpecRead32 == InitRead32 /\ [][NextRead32]_vars
SpecTLSDetector == InitTLSDetector /\ [][NextTLSDetector]_vars
SpecRetryableWrite == InitRetryableWrite /\ [][NextRetryableWrite]_vars

(***************************************************************************)
(* Claims                                                                  *)
(***************************************************************************)

\* C7: LatestTopologyDescription returns the NewDescription of the most
\* recently delivered TopologyDescriptionChanged event (the zero value before
\* any event), also while a callback runs concurrently with the readers.
C7_LatestIsLastDelivered ==
  \A r \in Readers :
    rdPc[r] \in {"runlock", "returned"} => rdRet[r] = rdSeen[r]

\* C7 witness: a reader returned a delivered description after two events,
\* while the callback for a further event is waiting for the lock.
C7_Witness ==
  \E r \in Readers :
    /\ rdPc[r] = "returned"
    /\ rdRet[r] \in Descs
    /\ smDelivered >= 2
    /\ cbPc = "lock"
    /\ smReaders # {}

\* C8: ConnsReady(addr) equals the number of connections to addr that have
\* become ready and have not been closed.
C8_ConnsReadyCountsReady ==
  \A a \in Addrs :
    ConnsReady(a) =
      Cardinality({c \in ConnIds : connAddr[c] = a /\ connState[c] = "ready"})

\* The events the monitor is to record: started and failed commands named in
\* cmds, and connections checked out, checked in or closed.
C9_Recordable(e) ==
  \/ e.cb \in {"Started", "Failed"} /\ \E i \in DOMAIN monCmds : monCmds[i] = e.name
  \/ e.cb = "Pool" /\ e.name \in {ConnectionCheckedOut, ConnectionCheckedIn, ConnectionClosed}

\* C9: Events returns a copy of all recorded events in the order they were
\* recorded; the recorded events are exactly the started/failed events of the
\* commands in cmds and the checked-out/checked-in/closed connection events;
\* writing to a returned slice never changes what a later call returns.
C9_EventsIsOrderedCopy ==
  /\ LET r == Events(monHeap, allEvents)
     IN SliceContent(r.heap, r.slice) = monRecorded
  /\ ~gotDirty => SliceContent(monHeap, gotEvents) = gotExpected
  /\ \A i \in DOMAIN monRecorded :
       /\ C9_Recordable(monRecorded[i].Event)
       /\ monRecorded[i] = RecordedEvent(monRecorded[i].Event)
  /\ \A e \in monCompleted :
       C9_Recordable(e) => \E i \in DOMAIN monRecorded : monRecorded[i].Event = e

\* C9 witness: the result of a first call was overwritten, and a second call
\* returned the two or more events recorded by then.
C9_Witness ==
  /\ evCalls = 2
  /\ 1 \in dirtyCalls
  /\ ~gotDirty
  /\ Len(gotExpected) >= 2
  /\ SliceContent(monHeap, gotEvents) = gotExpected

\* The client definitions listed in a createEntities field.
C10_Listed(ce) ==
  {ce.list[j].Client[1] : j \in {k \in DOMAIN ce.list : ce.list[k].Client # <<>>}}

\* C10: after a successful decode every test case's clients are the union of
\* the file-level and the test-level client IDs, and an ID defined at both
\* levels keeps the test-level definition.
C10_MergeTestWins ==
  (tfPc = "decoded" /\ tfErr = Nil) =>
    /\ Len(tfTests) = Len(tfData.tests)
    /\ \A i \in DOMAIN tfTests :
         LET fileC == C10_Listed(tfData.createEntities)
             testC == C10_Listed(tfData.tests[i].createEntities)
         IN /\ DOMAIN tfTests[i].clients = {c.ID : c \in fileC \cup testC}
            /\ \A c \in testC : tfTests[i].clients[c.ID] = c
            /\ \A c \in fileC :
                 (\A d \in testC : d.ID # c.ID) => tfTests[i].clients[c.ID] = c

\* C10 witness: a decoded test case overrides one file-level client with a
\* different definition and inherits another one.
C10_Witness ==
  /\ tfPc = "decoded"
  /\ tfErr = Nil
  /\ \E i \in DOMAIN tfTests :
       LET fileC == C10_Listed(tfData.createEntities)
           testC == C10_Listed(tfData.tests[i].createEntities)
       IN /\ \E c \in fileC, d \in testC :
               c.ID = d.ID /\ c # d
               /\ getByID(tfTests[i].clients, c.ID, ZeroClient).value = d
          /\ \E c \in fileC :
               /\ \A d \in testC : d.ID # c.ID
               /\ getByID(tfTests[i].clients, c.ID, ZeroClient).ok

\* C4: once a test is over, every fail point a call of Enable configured has
\* been disabled by a later configureFailPoint command with mode off, whether
\* or not the test ran the TeardownFunc.
C4_EveryFailPointDisabled ==
  fpPc = "done" =>
    \A i \in fpEnabled :
      \E j \in DOMAIN fpAdminCmds :
        /\ j > i
        /\ fpAdminCmds[j].ConfigureFailPoint = fpAdminCmds[i].ConfigureFailPoint
        /\ fpAdminCmds[j].Mode.kind = "string"
        /\ fpAdminCmds[j].Mode.str = ModeOff

\* The database definitions listed in a createEntities field.
C11_ListedDatabases(ce) ==
  {ce.list[j].Database[1] :
     j \in {k \in DOMAIN ce.list : ce.list[k].Client = <<>> /\ ce.list[k].Database # <<>>}}

\* C11: after a successful decode every file-level client and every
\* file-level database can be looked up by ID in every test case.
C11_FileEntitiesInEveryTest ==
  (tfPc = "decoded" /\ tfErr = Nil) =>
    \A i \in DOMAIN tfTests :
      /\ \A c \in C10_Listed(tfData.createEntities) :
           getByID(tfTests[i].clients, c.ID, ZeroClient).ok
      /\ \A d \in C11_ListedDatabases(tfData.createEntities) :
           getByID(tfTests[i].databases, d.ID, ZeroDatabase).ok

\* C12: AwaitIndex returns only once an index named searchName is listed
\* with queryable = true, and it returns that index's document; while the
\* index is not yet listed or not yet queryable it does not return.
C12_ReturnsOnlyQueryable ==
  aiPc = "returned" =>
    /\ aiDoc = <<[name |-> aiSearchName, queryable |-> TRUE]>>
    /\ aiIndexes[aiSearchName] = "queryable"

\* The options that have been set when the setup starts (NewV1 sets default
\* v1 client options when its caller gave none).
C13_OptionSet(kind) ==
  LET fs == EntryOptionFuncs(mlEntry, mlOptionFuncs)
  IN \E i \in DOMAIN fs : fs[i].kind = kind

\* C13: with both v1 and v2 client options set, New, NewWithEnv and NewV1
\* fail the test before any container is started; with only v1 options set
\* they return a connected v1 client, and with none or only v2 options a
\* connected v2 client.
C13_ClientByOptions ==
  LET v1 == C13_OptionSet("WithMongoClientOptionsV1")
      v2 == C13_OptionSet("WithMongoClientOptions")
  IN /\ (v1 /\ v2 /\ mlPc # "call") =>
          (mlPc = "failed" /\ mlContainer = <<>>)
     /\ (mlPc = "returned" /\ v1 /\ ~v2) => mlReturned = "connected v1 client"
     /\ (mlPc = "returned" /\ ~v1) => mlReturned = "connected v2 client"

\* C14: whenever mongolocal is configured with WithOIDC, the container is
\* started as a replica set, also when WithReplicaSet was not passed.
C14_OIDCStartsReplicaSet ==
  (mlContainer # <<>> /\ mlOpts.oidcConfig # Nil) =>
    "replSet" \in mlContainer[1].containerOpts

\* The string value of a field of the decoded document, "" when it is absent.
C15_Given(key) ==
  IF key \in DOMAIN kmsData.elems THEN kmsData.elems[key].v ELSE ""

\* C15: decoding an aws KMS provider. A document with a field other than
\* accessKeyId, secretAccessKey and sessionToken is rejected with an error
\* and leaves the receiver unchanged. Otherwise, when sessionToken is
\* "$$placeholder" it is replaced by CSFLE_AWS_TEMP_SESSION_TOKEN and an
\* empty accessKeyId / secretAccessKey is filled from
\* CSFLE_AWS_TEMP_ACCESS_KEY_ID / CSFLE_AWS_TEMP_SECRET_ACCESS_KEY; when it is
\* not, an empty accessKeyId / secretAccessKey is filled from FLE_AWS_KEY /
\* FLE_AWS_SECRET; a non-empty accessKeyId or secretAccessKey is kept.
C15_PlaceholderSubstitution ==
  kmsPc = "decoded" =>
    /\ (kmsData.valid /\ DOMAIN kmsData.elems \ AllowedKeys # {}) =>
         (kmsErr # Nil /\ kmsRecv = kmsRecv0)
    /\ kmsErr = Nil =>
         /\ C15_Given("accessKeyId") # "" =>
              kmsRecv.AccessKeyID = C15_Given("accessKeyId")
         /\ C15_Given("secretAccessKey") # "" =>
              kmsRecv.SecretAccessKey = C15_Given("secretAccessKey")
         /\ IF C15_Given("sessionToken") = Placeholder
            THEN /\ kmsRecv.SessionToken = kmsEnv["CSFLE_AWS_TEMP_SESSION_TOKEN"]
                 /\ C15_Given("accessKeyId") = "" =>
                      kmsRecv.AccessKeyID = kmsEnv["CSFLE_AWS_TEMP_ACCESS_KEY_ID"]
                 /\ C15_Given("secretAccessKey") = "" =>
                      kmsRecv.SecretAccessKey =
                        kmsEnv["CSFLE_AWS_TEMP_SECRET_ACCESS_KEY"]
            ELSE /\ C15_Given("accessKeyId") = "" =>
                      kmsRecv.AccessKeyID = kmsEnv["FLE_AWS_KEY"]
                 /\ C15_Given("secretAccessKey") = "" =>
                      kmsRecv.SecretAccessKey = kmsEnv["FLE_AWS_SECRET"]

\* C15 witness: a document with the placeholder token, an empty accessKeyId
\* and a given secretAccessKey was decoded in an environment that sets all
\* variables: the id and the token are the temporary ones, the secret is kept.
C15_Witness ==
  /\ kmsPc = "decoded"
  /\ kmsErr = Nil
  /\ \A n \in EnvNames : kmsEnv[n] # ""
  /\ C15_Given("sessionToken") = Placeholder
  /\ "accessKeyId" \in DOMAIN kmsData.elems
  /\ kmsRecv = [AccessKeyID |-> kmsEnv["CSFLE_AWS_TEMP_ACCESS_KEY_ID"],
                SecretAccessKey |-> "given",
                SessionToken |-> kmsEnv["CSFLE_AWS_TEMP_SESSION_TOKEN"]]
  /\ kmsRecv0 = PriorProvider

\* A transaction is in progress on a session.
C16_InTransaction(s) == s.state \in {"Starting", "InProgress"}

C20_LittleEndianInt32(src) ==
  LET top == IF src[4] >= 128 THEN src[4] - 256 ELSE src[4]
  IN src[1] + 256 * src[2] + 65536 * src[3] + 16777216 * top

\* C20: read32[int32] and readi32 return the same result for every byte
\* slice: (0, src, false) when len(src) < 4, otherwise the first four bytes
\* read little-endian as a 32-bit two's-complement value, src[4:] and true.
C20_SameResult ==
  (r32Ret # <<>> /\ ri32Ret # <<>>) =>
    /\ r32Ret = ri32Ret
    /\ IF Len(r32Src) < 4
       THEN ri32Ret[1] = [value |-> 0, rest |-> r32Src, ok |-> FALSE]
       ELSE ri32Ret[1] = [value |-> C20_LittleEndianInt32(r32Src),
                          rest |-> SubSeq(r32Src, 5, Len(r32Src)), ok |-> TRUE]

\* C20 witness: both functions read FF FF FF FF followed by one more byte
\* and returned -1 with that byte as the remainder.
C20_Witness ==
  /\ Len(r32Src) = 5
  /\ SubSeq(r32Src, 1, 4) = <<255, 255, 255, 255>>
  /\ r32Ret = <<[value |-> -1, rest |-> <<r32Src[5]>>, ok |-> TRUE]>>
  /\ ri32Ret = r32Ret

\* What a chunk decides: "tls" for at least 3 bytes that start with 0x16 0x03,
\* "plain" for at least 16 bytes that do not start with 0x16, "none" otherwise.
C21_Class(chunk) ==
  IF Len(chunk) >= 3 /\ chunk[1] = 22 /\ chunk[2] = 3 THEN "tls"
  ELSE IF Len(chunk) >= 16 /\ chunk[1] # 22 THEN "plain"
  ELSE "none"

\* The chunks examined so far that decide something.
C21_Classifiable == {i \in DOMAIN tdSeen : C21_Class(tdSeen[i]) # "none"}

\* C21: on one connection onConnect is invoked at most once over any
\* sequence of Read and Write calls, also concurrent ones; the value it
\* reports is the one the first classifiable chunk decides, and while no
\* chunk was classifiable nothing is reported and the connection stays
\* unreported.
C21_ReportedOnceByFirstChunk ==
  /\ Len(tdCalls) <= 1
  /\ IF C21_Classifiable = {}
     THEN tdCalls = <<>> /\ ~tdReported
     ELSE LET first == CHOOSE i \in C21_Classifiable :
                         \A j \in C21_Classifiable : i <= j
          IN /\ tdReported
             /\ tdOnConnect => tdCalls = <<C21_Class(tdSeen[first]) = "tls">>
             /\ ~tdOnConnect => tdCalls = <<>>

\* C21 witness: an unclassifiable chunk, then a wire protocol message and
\* then a TLS record were examined; onConnect was invoked once, with
\* isTLS = false.
C21_Witness ==
  /\ Len(tdSeen) = 3
  /\ C21_Class(tdSeen[1]) = "none"
  /\ C21_Class(tdSeen[2]) = "plain"
  /\ C21_Class(tdSeen[3]) = "tls"
  /\ tdOnConnect
  /\ tdCalls = <<FALSE>>

\* C22: the queued function that configures the second fail point is
\* executed at most once per test, only from a CommandFailedEvent callback
\* for an insert command (in 7b only for an insert failure whose first error
\* code is 134), and a Failed callback never blocks when nothing is queued,
\* whatever the number and interleaving of failed-command events.
C22_SetupAtMostOnce ==
  /\ Len(rwExecuted) <= 1
  /\ \A i \in DOMAIN rwExecuted :
       /\ rwExecuted[i].setup = SetupFunc
       /\ rwExecuted[i].evt.CommandName = "insert"
       /\ rwTest = "7b" =>
            /\ Len(rwExecuted[i].evt.ErrorCodes) > 0
            /\ rwExecuted[i].evt.ErrorCodes[1] = 134
  /\ \A g \in FailedCallers :
       (rwCbPc[g] = "select" /\ setupCh = <<>>) => ENABLED FailedSelect(g)

\* C22 witness: in test 7b the callback of an insert failure with code 134
\* ran the queued function, and a later insert failure with code 134 found
\* nothing queued and returned.
C22_Witness ==
  /\ rwTest = "7b"
  /\ Len(rwExecuted) = 1
  /\ rwExecuted[1].evt = [CommandName |-> "insert", ErrorCodes |-> <<134>>]
  /\ rwEvents = 3
  /\ setupCh = <<>>
  /\ \A g \in FailedCallers : rwCbPc[g] = "idle"
  /\ rwPc = "done"

====
